---- MODULE Spec2Model ----
(***************************************************************************)
(* A model of the Sinter compiler front end (mavrukin/sinter_lang):        *)
(*   - the pointer-cleanup validator  (semantic/pointer_validator.py)      *)
(*   - the semantic analyzer          (semantic/analyzer.py)               *)
(*   - the class type and registry    (sinter_types/types.py)              *)
(*   - the symbol table               (sinter_types/symbol_table.py)       *)
(*   - the driver                     (main.py)                            *)
(*   - the method-call lowering       (codegen/codegen.py)                 *)
(* Each component is a state machine of its own; a specification runs one  *)
(* component and leaves the variables of the others at their idle values.  *)
(***************************************************************************)
EXTENDS Integers, Sequences, FiniteSets, TLC

VARIABLES
    \* ---- pointer validator ----
    frames,       \* stack of trackers: the chain current_tracker -> parent -> ...
    pvErrors,     \* PointerValidator.errors
    pvWarnings,   \* PointerValidator.warnings
    pvPc,         \* "idle" | "body" | "done"
    pvFuel,       \* statements of the body not yet visited (input budget)
    path,         \* one control-flow path to here: per open scope, the state
                  \* of the bindings declared in it
    live,         \* whether that path reaches the current statement
    leakReturn    \* some reachable return was passed with a binding allocated

pvVars == <<frames, pvErrors, pvWarnings, pvPc, pvFuel, path, live, leakReturn>>

VARIABLES
    \* ---- semantic analyzer ----
    decls,        \* the ClassDeclarations of the program, in source order
    reg,          \* TypeRegistry: the ClassType registered under each name
    scopes,       \* SymbolTable.scope_stack; the last scope is current_scope
    semErrors,    \* SemanticAnalyzer.errors
    semPc,        \* position of analyze(): pass, declaration index, nesting
    semFuel,      \* members / functions / statements not yet visited
    raised,       \* the exception analyze() ended with, or "none"
    semLast       \* the statement analysed last and the errors it recorded

semVars == <<decls, reg, scopes, semErrors, semPc, semFuel, raised, semLast>>

VARIABLES
    \* ---- code generator (one function body) ----
    ast,          \* the statements of the function body, in source order
    locals,       \* CodeGenerator.local_var_types
    emitted,      \* the call instructions emitted, each with its statement
    genPc         \* position of _generate_function: phase and statement index

genVars == <<ast, locals, emitted, genPc>>

VARIABLES
    \* ---- driver ----
    drvPc,        \* the step main() takes next, or "exit"
    args,         \* the command-line flags
    outcome,      \* what every step returned: "notrun", "ok" or how it failed
    warned,       \* the stages whose warnings were printed
    irWritten,    \* whether the LLVM IR was written to a file
    exitStatus    \* the exit status of the process, NotExited while it runs

drvVars == <<drvPc, args, outcome, warned, irWritten, exitStatus>>

VARIABLES
    \* ---- code generator (statements of function bodies) ----
    cg,           \* CodeGenerator: local_vars, the D-string tables, has_returned
    output,       \* CodeGenerator.output: the instructions emitted so far
    emPc          \* position of _generate_function: phase, open blocks, and
                  \* whether some path reaches this point without a return

emVars == <<cg, output, emPc>>

VARIABLES
    \* ---- D-string runtime (the emitted IR functions, on one instance) ----
    rt,           \* the heap, the %DString struct and the variable it references
    rtLast        \* the runtime call made last: what it returned, allocated and
                  \* freed, and the struct as it was at the call

rtVars == <<rt, rtLast>>

VARIABLES
    \* ---- string pools ----
    prog,         \* the statements of the program, in source order
    pool          \* CodeGenerator.string_constants and the constants emitted;
                  \* SymbolTable.string_constants, string_counter and the
                  \* names add_string_constant has returned

poolVars == <<prog, pool>>

VARIABLES
    \* ---- class bodies: Parser.parse_class, then _analyze_class ----
    cb            \* the parser's current_visibility and member list, the label
                  \* each member stands under in the source, and the analyzer's
                  \* current_visibility, member infos and errors

cbVars == <<cb>>

VARIABLES
    \* ---- symbol table on its own: SymbolTable ----
    tab,          \* the scopes from global_scope to current_scope, the length
                  \* of scope_stack, and the scopes that were left
    tabLast       \* the last call: its arguments, what it raised or returned,
                  \* and the table it was made on

tabVars == <<tab, tabLast>>

VARIABLES
    \* ---- lexer: Lexer.tokenize ----
    lx            \* the Lexer's source and pos, its tokens, what tokenize
                  \* raised, and where the call stands

lxVars == <<lx>>

VARIABLES
    \* ---- pointer validator, statement by statement ----
    pvLast,       \* the statement validated last: the tracker stack it met
                  \* and the errors and warnings it added
    pvOpen        \* per open tracker: the binding states at the end of the
                  \* then block, and the names bound to allocations inside

stmVars == <<pvLast, pvOpen>>

extVars == <<emVars, rtVars, poolVars, cbVars, tabVars, lxVars, stmVars>>

vars == <<pvVars, semVars, genVars, drvVars, extVars>>

(***************************************************************************)
(* Bounds of the model.                                                    *)
(***************************************************************************)
MaxStmts == 5
MaxDepth == 2
MaxClasses == 2
MaxMembers == 3
MaxFields == 4
MaxFuncs == 2
MaxBodyStmts == 3
MaxEmStmts == 4
MaxEmFuncs == 2
MaxEmDepth == 2
MaxDstrings == 2
MaxAddr == 7
MaxPvStmts == 4
MaxSource == 3
MaxText == 4
MaxTabDepth == 3
MaxTabCalls == 6
MaxClassItems == 4
MaxPoolStmts == 2
MaxPoolRuns == 2
MaxPoolAdds == 3

NoName == "none"

(***************************************************************************)
(*                    POINTER-CLEANUP VALIDATOR                            *)
(***************************************************************************)
PtrNames == {"h", "g"}

\* PointerState; "none" stands for a name that is no key of tracker.pointers.
ALLOCATED == "allocated"
RELEASED == "released"
CLEANED == "cleaned"

\* PointerTracker.__init__: no pointers, no allocations.  The parent link is
\* the position in the stack `frames`.
EmptyPointers == [n \in PtrNames |-> NoName]
NewTracker == [pointers |-> EmptyPointers, allocations |-> <<>>]

\* PointerTracker.allocate
Allocate(tr, n) ==
    [pointers |-> [tr.pointers EXCEPT ![n] = ALLOCATED],
     allocations |-> Append(tr.allocations, n)]

\* The index of the tracker that release / clean reach for name n,
\* searching from tracker i outward through the parents; 0 when none holds n.
HolderNoParent(fr, i, n) == IF fr[i].tr.pointers[n] # NoName THEN i ELSE 0
RECURSIVE Holder(_, _, _)
Holder(fr, i, n) ==
    IF i = 0 THEN 0
    ELSE IF fr[i].tr.pointers[n] # NoName THEN i
    ELSE Holder(fr, i - 1, n)

\* PointerTracker.release / PointerTracker.clean on the current tracker.
SetState(fr, n, st) ==
    LET i == Holder(fr, Len(fr), n) IN
    IF i = 0 THEN fr
    ELSE [fr EXCEPT ![i].tr.pointers[n] = st]

\* PointerTracker.get_unclean_pointers: one entry per recorded allocation
\* whose name is still allocated in this tracker.
IsAllocatedInAnyState(tr, n) == TRUE
IsAllocatedIn(tr, n) == tr.pointers[n] = ALLOCATED
GetUncleanPointers(tr) ==
    SelectSeq(tr.allocations, LAMBDA n : IsAllocatedIn(tr, n))

RECURSIVE SeqToSet(_)
SeqToSet(s) == IF s = <<>> THEN {} ELSE {Head(s)} \cup SeqToSet(Tail(s))

\* The error / warning records appended for a list of names.
ErrorsFor(names, where) ==
    [i \in 1..Len(names) |-> [name |-> names[i], at |-> where]]

\* The path: the scope that holds the binding named n, searching outward
\* from scope i (0 when none does), and the effect of release / clean.
RECURSIVE PathHolder(_, _, _)
PathHolder(p, i, n) ==
    IF i = 0 THEN 0
    ELSE IF p[i][n] # NoName THEN i
    ELSE PathHolder(p, i - 1, n)
PathSet(p, n, st) ==
    LET i == PathHolder(p, Len(p), n) IN
    IF i = 0 THEN p ELSE [p EXCEPT ![i][n] = st]
PathLeaks(p) == \E i \in 1..Len(p), n \in PtrNames : p[i][n] = ALLOCATED
Pop(p) == SubSeq(p, 1, Len(p) - 1)

Top == frames[Len(frames)]
CurrentTracker == Top.tr

\* The frame pushed for a child tracker; it remembers the path on entry and,
\* in an else branch, the path that left the then branch.
Frame(kind, thenTr, thenPath, thenLive) ==
    [kind |-> kind, tr |-> NewTracker, thenTr |-> thenTr,
     entryPath |-> path, entryLive |-> live,
     thenPath |-> thenPath, thenLive |-> thenLive]

PVInit ==
    /\ frames = <<[kind |-> "func", tr |-> NewTracker, thenTr |-> NewTracker,
                   entryPath |-> <<>>, entryLive |-> TRUE,
                   thenPath |-> <<>>, thenLive |-> FALSE]>>
    /\ pvErrors = <<>>
    /\ pvWarnings = <<>>
    /\ pvPc = "body"
    /\ pvFuel = MaxStmts
    /\ path = <<EmptyPointers>>
    /\ live = TRUE
    /\ leakReturn = FALSE

PVIdle ==
    /\ frames = <<>>
    /\ pvErrors = <<>>
    /\ pvWarnings = <<>>
    /\ pvPc = "idle"
    /\ pvFuel = 0
    /\ path = <<>>
    /\ live = FALSE
    /\ leakReturn = FALSE

CanVisit == pvPc = "body" /\ pvFuel > 0

\* _validate_var_declaration for `var n: C* = C.new();` (an allocation).
PVVarDeclAlloc(n) ==
    /\ CanVisit
    /\ frames' = [frames EXCEPT ![Len(frames)].tr = Allocate(CurrentTracker, n)]
    /\ path' = [path EXCEPT ![Len(path)][n] = ALLOCATED]
    /\ pvFuel' = pvFuel - 1
    /\ UNCHANGED <<pvErrors, pvWarnings, pvPc, live, leakReturn>>

\* _validate_method_call for `n.release();` and `n.clean();`
PVMethodCall(n, m) ==
    /\ CanVisit
    /\ frames' = SetState(frames, n, IF m = "release" THEN RELEASED ELSE CLEANED)
    /\ path' = PathSet(path, n, IF m = "release" THEN RELEASED ELSE CLEANED)
    /\ pvFuel' = pvFuel - 1
    /\ UNCHANGED <<pvErrors, pvWarnings, pvPc, live, leakReturn>>

\* _validate_statement, the ReturnStatement case: only the current tracker's
\* unclean pointers are reported.
PVReturn ==
    /\ CanVisit
    /\ pvErrors' = pvErrors \o ErrorsFor(GetUncleanPointers(CurrentTracker), "return")
    /\ leakReturn' = (leakReturn \/ (live /\ PathLeaks(path)))
    /\ live' = FALSE
    /\ pvFuel' = pvFuel - 1
    /\ UNCHANGED <<frames, pvWarnings, pvPc, path>>

\* _validate_if, up to the then block: a child tracker of the current one.
PVIfEnter ==
    /\ CanVisit
    /\ Len(frames) <= MaxDepth
    /\ frames' = Append(frames, Frame("then", NewTracker, <<>>, FALSE))
    /\ path' = Append(path, EmptyPointers)
    /\ pvFuel' = pvFuel - 1
    /\ UNCHANGED <<pvErrors, pvWarnings, pvPc, live, leakReturn>>

\* _validate_if, from the end of the then block to the else block: a second
\* child of the same parent; the then tracker is kept for the comparison.
PVElse ==
    /\ pvPc = "body"
    /\ Top.kind = "then"
    /\ frames' = [frames EXCEPT ![Len(frames)] =
                    [kind |-> "else", tr |-> NewTracker, thenTr |-> Top.tr,
                     entryPath |-> Top.entryPath, entryLive |-> Top.entryLive,
                     thenPath |-> Pop(path), thenLive |-> live]]
    /\ path' = Append(Top.entryPath, EmptyPointers)
    /\ live' = Top.entryLive
    /\ UNCHANGED <<pvErrors, pvWarnings, pvPc, pvFuel, leakReturn>>

\* The control-flow paths that leave a statement: (path, live) pairs.
Leaving(cands) ==
    IF \E c \in cands : c[2] THEN {c \in cands : c[2]} ELSE cands

\* _validate_if without an else block: the parent tracker is restored and
\* the then tracker is dropped.
PVIfEndNoElse ==
    /\ pvPc = "body"
    /\ Top.kind = "then"
    /\ frames' = SubSeq(frames, 1, Len(frames) - 1)
    /\ \E c \in Leaving({<<Pop(path), live>>, <<Top.entryPath, Top.entryLive>>}) :
          path' = c[1] /\ live' = c[2]
    /\ UNCHANGED <<pvErrors, pvWarnings, pvPc, pvFuel, leakReturn>>

\* All orders in which a set can be iterated.
RECURSIVE Orders(_)
Orders(S) ==
    IF S = {} THEN {<<>>}
    ELSE UNION {{<<x>> \o o : o \in Orders(S \ {x})} : x \in S}

SymmetricDifference(S, T) == (S \ T) \cup (T \ S)

\* _validate_if with an else block: the parent tracker is restored and one
\* warning is recorded per name unclean in exactly one branch.
PVIfEndElse ==
    /\ pvPc = "body"
    /\ Top.kind = "else"
    /\ frames' = SubSeq(frames, 1, Len(frames) - 1)
    /\ LET then_unclean == SeqToSet(GetUncleanPointers(Top.thenTr))
           else_unclean == SeqToSet(GetUncleanPointers(Top.tr))
           diff == SymmetricDifference(then_unclean, else_unclean)
       IN \E o \in Orders(diff) :
             pvWarnings' = pvWarnings \o ErrorsFor(o, "branch")
    /\ \E c \in Leaving({<<Pop(path), live>>, <<Top.thenPath, Top.thenLive>>}) :
          path' = c[1] /\ live' = c[2]
    /\ UNCHANGED <<pvErrors, pvPc, pvFuel, leakReturn>>

\* _validate_while, up to the body: a child tracker of the current one.
PVWhileEnter ==
    /\ CanVisit
    /\ Len(frames) <= MaxDepth
    /\ frames' = Append(frames, Frame("while", NewTracker, <<>>, FALSE))
    /\ path' = Append(path, EmptyPointers)
    /\ pvFuel' = pvFuel - 1
    /\ UNCHANGED <<pvErrors, pvWarnings, pvPc, live, leakReturn>>

\* _validate_while, after the body: a warning per allocation of the loop
\* tracker still allocated, then the parent tracker is restored.
PVWhileEnd ==
    /\ pvPc = "body"
    /\ Top.kind = "while"
    /\ pvWarnings' = pvWarnings \o ErrorsFor(GetUncleanPointers(Top.tr), "loop")
    /\ frames' = SubSeq(frames, 1, Len(frames) - 1)
    /\ \E c \in Leaving({<<Pop(path), live>>, <<Top.entryPath, Top.entryLive>>}) :
          path' = c[1] /\ live' = c[2]
    /\ UNCHANGED <<pvErrors, pvPc, pvFuel, leakReturn>>

\* _validate_function after the body: the exit check on the function tracker.
PVFunctionEnd ==
    /\ pvPc = "body"
    /\ Top.kind = "func"
    /\ pvErrors' = pvErrors \o ErrorsFor(GetUncleanPointers(CurrentTracker), "exit")
    /\ pvPc' = "done"
    /\ UNCHANGED <<frames, pvWarnings, pvFuel, path, live, leakReturn>>

(***************************************************************************)
(*                 TYPES, CLASS TYPE AND TYPE REGISTRY                     *)
(***************************************************************************)
ClassNames == {"A", "B"}
UnknownBase == "Z"            \* a base-class name no declaration introduces
FieldNames == {"x", "y"}
MethodNames == {"f", "clean"}
FuncNames == {"main", "aux"}
VarNames == {"h"}
StrVars == {"s"}
SymNames == ClassNames \cup FuncNames \cup VarNames \cup StrVars \cup {"this"}

\* SinterType: equality is by name and kind (SinterType.__eq__).  A pointer
\* type is named after its pointee.
NoType == [kind |-> "none", name |-> NoName]
PrimitiveT(n) == [kind |-> "primitive", name |-> n]
VoidT == [kind |-> "void", name |-> "void"]
ClassT(c) == [kind |-> "class", name |-> c]
PointerT(c) == [kind |-> "pointer", name |-> c]
FunctionT(ret, param_types) ==
    [kind |-> "function", name |-> "fn", ret |-> ret, param_types |-> param_types]

PrimitiveNames == {"int", "float", "double", "boolean", "byte", "short", "long"}

\* PrimitiveType.SIZES
PrimitiveSize(n) ==
    CASE n = "int" -> 4 [] n = "float" -> 4 [] n = "double" -> 8
      [] n = "boolean" -> 1 [] n = "byte" -> 1 [] n = "short" -> 2
      [] n = "long" -> 8

\* ClassType.__init__: no fields, no methods, no parent, struct_size 8.
VtableSlotSize == 8
NewClass(isRegistered) ==
    [registered |-> isRegistered, parent |-> NoName, fields |-> <<>>,
     methods |-> <<>>, vtable |-> <<>>, struct_size |-> VtableSlotSize]

\* size_bytes of every type
SizeBytes(r, t) ==
    CASE t.kind = "primitive" -> PrimitiveSize(t.name)
      [] t.kind = "void" -> 0
      [] t.kind = "class" -> r[t.name].struct_size
      [] OTHER -> 8

\* TypeRegistry.get
RegistryGet(r, n) ==
    IF n \in PrimitiveNames THEN PrimitiveT(n)
    ELSE IF n = "void" THEN VoidT
    ELSE IF n \in ClassNames /\ r[n].registered THEN ClassT(n)
    ELSE IF n = "str" THEN [kind |-> "string", name |-> "str"]
    ELSE IF n = "d_str" THEN [kind |-> "d_string", name |-> "d_str"]
    ELSE NoType

\* SemanticAnalyzer._resolve_type for a type name `base` or `base*`
TypeName(base, ptr) == [base |-> base, ptr |-> ptr]
ResolveType(r, tn) ==
    LET base == RegistryGet(r, tn.base) IN
    IF ~tn.ptr THEN base
    ELSE IF base = NoType THEN NoType
    ELSE PointerT(tn.base)

\* A Python dict keyed by .name, in insertion order: assigning to a key that
\* is present replaces the value and keeps the key's place.
DictIndex(d, n) ==
    IF \E i \in 1..Len(d) : d[i].name = n
    THEN CHOOSE i \in 1..Len(d) : d[i].name = n
    ELSE 0
DictPut(d, e) ==
    IF DictIndex(d, e.name) = 0 THEN Append(d, e)
    ELSE [d EXCEPT ![DictIndex(d, e.name)] = e]
RECURSIVE DictUpdate(_, _)
DictUpdate(d, es) ==
    IF es = <<>> THEN d ELSE DictUpdate(DictPut(d, Head(es)), Tail(es))

\* ClassType.add_field, from the alignment on (the field is in the map).
AlignUp(size, to) ==
    IF size % to # 0 THEN size + (to - (size % to)) ELSE size
FieldOffset(struct_size, field_size) == AlignUp(struct_size, field_size)
AddField(cls, f, field_size) ==
    LET off == FieldOffset(cls.struct_size, field_size) IN
    [cls EXCEPT !.fields = DictPut(@, [f EXCEPT !.offset = off]),
                !.struct_size = off + field_size]
\* ClassType.add_field on a type of size 0: the field is put in the map and
\* the modulo raises ZeroDivisionError before any offset is assigned.
AddFieldRaising(cls, f) ==
    [cls EXCEPT !.fields = DictPut(@, f)]

\* ClassType.add_method
VtableIndex(cls, m) == IF m.is_static THEN 0 - 1 ELSE Len(cls.vtable)
AddMethod(cls, m) ==
    LET mi == [m EXCEPT !.vtable_index = VtableIndex(cls, m)] IN
    [cls EXCEPT !.methods = DictPut(@, mi),
                !.vtable = IF m.is_static THEN @ ELSE Append(@, mi)]

\* ClassType.get_field / get_method: the class of the chain c, parent, ...
\* whose own map holds n, or NoName.
RECURSIVE FieldOwner(_, _, _)
FieldOwner(r, c, n) ==
    IF DictIndex(r[c].fields, n) # 0 THEN c
    ELSE IF r[c].parent # NoName THEN FieldOwner(r, r[c].parent, n)
    ELSE NoName
RECURSIVE MethodOwner(_, _, _)
MethodOwner(r, c, n) ==
    IF DictIndex(r[c].methods, n) # 0 THEN c
    ELSE IF r[c].parent # NoName THEN MethodOwner(r, r[c].parent, n)
    ELSE NoName
GetMethod(r, c, n) ==
    LET o == MethodOwner(r, c, n) IN r[o].methods[DictIndex(r[o].methods, n)]

(***************************************************************************)
(*                            SYMBOL TABLE                                 *)
(***************************************************************************)
\* Symbol: its type, and the class whose `new()` initialised it (if any).
\* NoSymbol stands for a name that is no key of scope.symbols.
Symbol(t, init) == [type |-> t, init |-> init]
NoSymbol == Symbol(NoType, NoName)

\* Scope.__init__
NewScope(n) == [name |-> n, symbols |-> [s \in SymNames |-> NoSymbol]]

\* A define that accepts a name its scope already holds.
DefineNeverFails(sc, n) == FALSE

\* Scope.define returns False on a name the scope already holds, and
\* SymbolTable.define then raises NameError.
DefineFails(sc, n) == sc[Len(sc)].symbols[n] # NoSymbol
Define(sc, n, sym) == [sc EXCEPT ![Len(sc)].symbols[n] = sym]

\* SymbolTable.resolve: the innermost scope of the chain that holds n.
RECURSIVE ResolveFrom(_, _, _)
ResolveFrom(sc, i, n) ==
    IF i = 0 THEN NoSymbol
    ELSE IF sc[i].symbols[n] # NoSymbol THEN sc[i].symbols[n]
    ELSE ResolveFrom(sc, i - 1, n)
Resolve(sc, n) == ResolveFrom(sc, Len(sc), n)

\* SymbolTable.enter_scope / exit_scope
EnterScope(sc, n) == Append(sc, NewScope(n))
ExitScope(sc) == SubSeq(sc, 1, Len(sc) - 1)

(***************************************************************************)
(*                         SEMANTIC ANALYZER                               *)
(***************************************************************************)
\* SemanticAnalyzer._error
SemError(kind, n) == [kind |-> kind, name |-> n]

\* The class headers a program may hold: name and optional `extends`.
Header == [name : ClassNames, extends : ClassNames \cup {NoName, UnknownBase}]
HeaderLists(k) == UNION {[1..n -> Header] : n \in 1..k}

\* Programs whose `extends` clauses form no cycle (get_field and get_method
\* recurse along parent_class).
RECURSIVE Ancestors(_, _, _)
Ancestors(E, S, k) ==
    IF k = 0 THEN S
    ELSE Ancestors(E, S \cup {e[2] : e \in {e \in E : e[1] \in S}}, k - 1)
Acyclic(hs) ==
    LET E == {<<hs[i].name, hs[i].extends>> : i \in 1..Len(hs)} IN
    \A c \in ClassNames :
        c \notin Ancestors(E, {e[2] : e \in {e \in E : e[1] = c}}, Cardinality(ClassNames))

StartPc(ds) ==
    [pass |-> IF ds = <<>> THEN "functions" ELSE "register", i |-> 1,
     inside |-> "none"]

SemInit(headers, fuel) ==
    /\ decls \in headers
    /\ reg = [c \in ClassNames |-> NewClass(FALSE)]
    /\ scopes = <<NewScope("global")>>
    /\ semErrors = <<>>
    /\ semPc = StartPc(decls)
    /\ semFuel = fuel
    /\ raised = "none"
    /\ semLast = [kind |-> "none", name |-> NoName, arg |-> NoName,
                  tname |-> [base |-> NoName, ptr |-> FALSE], nerrs |-> 0]

SemIdle ==
    /\ decls = <<>>
    /\ reg = [c \in ClassNames |-> NewClass(FALSE)]
    /\ scopes = <<>>
    /\ semErrors = <<>>
    /\ semPc = [pass |-> "idle", i |-> 0, inside |-> "none"]
    /\ semFuel = [members |-> 0, funcs |-> 0, stmts |-> 0]
    /\ raised = "none"
    /\ semLast = [kind |-> "none", name |-> NoName, arg |-> NoName,
                  tname |-> [base |-> NoName, ptr |-> FALSE], nerrs |-> 0]

Running(pass) == raised = "none" /\ semPc.pass = pass
Decl == decls[semPc.i]

\* The loop `for decl in ast.declarations` of one pass: the next declaration,
\* or the first declaration of the next pass.
NextDecl(nextPass) ==
    IF semPc.i < Len(decls) THEN [semPc EXCEPT !.i = @ + 1, !.inside = "none"]
    ELSE [pass |-> nextPass, i |-> 1, inside |-> "none"]

\* _register_class (first pass)
SemRegisterClass ==
    /\ Running("register")
    /\ IF RegistryGet(reg, Decl.name) # NoType
       THEN /\ semErrors' = Append(semErrors, SemError("DuplicateClass", Decl.name))
            /\ semPc' = NextDecl("resolve")
            /\ UNCHANGED <<reg, scopes, raised>>
       ELSE IF DefineFails(scopes, Decl.name)
       THEN /\ reg' = [reg EXCEPT ![Decl.name] = NewClass(TRUE)]
            /\ raised' = "NameError"
            /\ UNCHANGED <<scopes, semErrors, semPc>>
       ELSE /\ reg' = [reg EXCEPT ![Decl.name] = NewClass(TRUE)]
            /\ scopes' = Define(scopes, Decl.name, Symbol(ClassT(Decl.name), NoName))
            /\ semPc' = NextDecl("resolve")
            /\ UNCHANGED <<semErrors, raised>>
    /\ UNCHANGED <<decls, semLast, semFuel>>

\* _resolve_class_hierarchy (second pass): the subclass takes the fields and
\* the vtable its parent has at this moment.
InheritFrom(cls, parentName, parent) ==
    [cls EXCEPT !.parent = parentName,
                !.fields = DictUpdate(@, parent.fields),
                !.vtable = parent.vtable]
SemResolveClassHierarchy ==
    /\ Running("resolve")
    /\ IF Decl.extends = NoName
       THEN UNCHANGED <<reg, semErrors>>
       ELSE IF RegistryGet(reg, Decl.extends) = NoType
       THEN /\ semErrors' = Append(semErrors, SemError("BaseNotFound", Decl.extends))
            /\ UNCHANGED reg
       ELSE /\ reg' = [reg EXCEPT ![Decl.name] =
                          InheritFrom(@, Decl.extends, reg[Decl.extends])]
            /\ UNCHANGED semErrors
    /\ semPc' = NextDecl("members")
    /\ UNCHANGED <<decls, semLast, scopes, semFuel, raised>>

\* _analyze_class (third pass), up to the loop over the members
SemClassEnter ==
    /\ Running("members")
    /\ semPc.inside = "none"
    /\ scopes' = EnterScope(scopes, "class")
    /\ semPc' = [semPc EXCEPT !.inside = "class"]
    /\ UNCHANGED <<decls, semLast, reg, semErrors, semFuel, raised>>

InClass == Running("members") /\ semPc.inside = "class" /\ semFuel.members > 0

\* _analyze_field for `var n: tn` without annotation and initializer
FieldInfo(n, t) == [name |-> n, type |-> t, offset |-> 0]
SemAnalyzeField(n, tn) ==
    /\ InClass
    /\ LET resolved == ResolveType(reg, tn)
           field_type == IF resolved = NoType THEN PrimitiveT("int") ELSE resolved
           size == SizeBytes(reg, field_type)
           f == FieldInfo(n, field_type)
       IN /\ semErrors' = IF resolved = NoType
                          THEN Append(semErrors, SemError("UnknownType", tn.base))
                          ELSE semErrors
          /\ IF size = 0
             THEN /\ reg' = [reg EXCEPT ![Decl.name] = AddFieldRaising(@, f)]
                  /\ raised' = "ZeroDivisionError"
             ELSE /\ reg' = [reg EXCEPT ![Decl.name] = AddField(@, f, size)]
                  /\ UNCHANGED raised
    /\ semFuel' = [semFuel EXCEPT !.members = @ - 1]
    /\ UNCHANGED <<decls, semLast, scopes, semPc>>

\* _analyze_method for `method n() -> int { }` (`function` when static): the
\* method scope is entered, `this` defined, and the scope left again.
MethodInfo(n, static) ==
    [name |-> n, is_static |-> static, vtable_index |-> 0 - 1,
     return_type |-> PrimitiveT("int")]
SemAnalyzeMethod(n, static) ==
    /\ InClass
    /\ reg' = [reg EXCEPT ![Decl.name] = AddMethod(@, MethodInfo(n, static))]
    /\ scopes' = ExitScope(
          IF static THEN EnterScope(scopes, "method")
          ELSE Define(EnterScope(scopes, "method"), "this",
                      Symbol(PointerT(Decl.name), NoName)))
    /\ semFuel' = [semFuel EXCEPT !.members = @ - 1]
    /\ UNCHANGED <<decls, semLast, semErrors, semPc, raised>>

\* _analyze_class, after the loop over the members
SemClassExit ==
    /\ Running("members")
    /\ semPc.inside = "class"
    /\ scopes' = ExitScope(scopes)
    /\ semPc' = NextDecl("functions")
    /\ UNCHANGED <<decls, semLast, reg, semErrors, semFuel, raised>>

(***************************************************************************)
(*              FUNCTIONS AND STATEMENTS (fourth pass)                     *)
(***************************************************************************)
\* The chain parent_class, parent_class.parent_class, ... of class c holds t.
RECURSIVE InParentChain(_, _, _)
InParentChain(r, c, t) ==
    IF r[c].parent = NoName THEN FALSE
    ELSE IF r[c].parent = t THEN TRUE
    ELSE InParentChain(r, r[c].parent, t)

\* type.name == n for the names the analyzer compares with: the name of a
\* pointer type ends in `*` and equals none of them.
NameIs(t, n) == t.kind # "pointer" /\ t.name = n
NumericTypes == {"byte", "short", "int", "long", "float", "double"}
IsNumeric(t) == t.kind # "pointer" /\ t.name \in NumericTypes

\* SemanticAnalyzer._types_compatible(target, source)
TypesCompatible(r, target, source) ==
    \/ target = source
    \/ NameIs(source, "null") /\ target.kind = "pointer"
    \/ NameIs(target, "str") /\ NameIs(source, "d_str")
    \/ IsNumeric(target) /\ IsNumeric(source)
    \/ /\ target.kind = "class"
       /\ source.kind = "class"
       /\ InParentChain(r, source.name, target.name)

\* _analyze_method_call on `C.new()`: the type, and the errors recorded.
Typed(t, errs) == [type |-> t, errs |-> errs]
AnalyzeNewCall(r, sc, c) ==
    IF RegistryGet(r, c).kind = "class" THEN Typed(PointerT(c), <<>>)
    ELSE IF Resolve(sc, c) = NoSymbol
    THEN Typed(NoType, <<SemError("UndefinedIdentifier", c)>>)
    ELSE Typed(NoType, <<SemError("NonClassMember", c)>>)

\* _analyze_member_access on `obj.member` inside a function, obj a variable,
\* member other than `new`: the errors recorded.
Pointee(r, t) == IF t.kind = "pointer" THEN RegistryGet(r, t.name) ELSE t
MemberAccessErrors(r, sc, obj, member) ==
    LET sym == Resolve(sc, obj)
        actual == Pointee(r, sym.type)
    IN IF sym = NoSymbol THEN <<SemError("UndefinedIdentifier", obj)>>
       ELSE IF actual.kind # "class" THEN <<SemError("NonClassMember", obj)>>
       ELSE IF FieldOwner(r, actual.name, member) # NoName THEN <<>>
       ELSE IF MethodOwner(r, actual.name, member) # NoName THEN <<>>
       ELSE <<SemError("UnknownMember", member)>>

\* _analyze_method_call on `obj.member()`: the callee is analysed; a callee
\* of function type with no parameters takes the empty argument list.
MethodCallErrors(r, sc, obj, member) == MemberAccessErrors(r, sc, obj, member)

\* The statement analysed last, with the number of errors it recorded.
NoStmt == [kind |-> "none", name |-> NoName, arg |-> NoName,
           tname |-> TypeName(NoName, FALSE), nerrs |-> 0]
Stmt(kind, n, arg, tn, nerrs) ==
    [kind |-> kind, name |-> n, arg |-> arg, tname |-> tn, nerrs |-> nerrs]

ParamLists == {<<>>, <<"h">>, <<"h", "h">>}

\* The scope stack after defining the parameters ps one by one; the
\* definition stops at the first name the function scope already holds.
RECURSIVE DefineParams(_, _)
DefineParams(sc, ps) ==
    IF ps = <<>> \/ DefineFails(sc, Head(ps)) THEN sc
    ELSE DefineParams(Define(sc, Head(ps), Symbol(PrimitiveT("int"), NoName)),
                      Tail(ps))
RECURSIVE ParamsFail(_, _)
ParamsFail(sc, ps) ==
    IF ps = <<>> THEN FALSE
    ELSE IF DefineFails(sc, Head(ps)) THEN TRUE
    ELSE ParamsFail(Define(sc, Head(ps), Symbol(PrimitiveT("int"), NoName)),
                    Tail(ps))

\* _analyze_function for `function fn(ps: int ...) -> int {`, up to the body
SemFunctionEnter(fn, ps) ==
    /\ Running("functions")
    /\ semPc.inside = "none"
    /\ semFuel.funcs > 0
    /\ semFuel' = [semFuel EXCEPT !.funcs = @ - 1]
    /\ semLast' = Stmt("function", fn, NoName, TypeName("int", FALSE), 0)
    /\ IF DefineFails(scopes, fn)
       THEN /\ raised' = "NameError"
            /\ UNCHANGED <<scopes, semPc>>
       ELSE LET entered == EnterScope(
                    Define(scopes, fn,
                           Symbol(FunctionT(PrimitiveT("int"),
                                            [i \in 1..Len(ps) |-> PrimitiveT("int")]),
                                  NoName)),
                    "function")
            IN /\ scopes' = DefineParams(entered, ps)
               /\ IF ParamsFail(entered, ps)
                  THEN raised' = "NameError" /\ UNCHANGED semPc
                  ELSE semPc' = [semPc EXCEPT !.inside = "func"] /\ UNCHANGED raised
    /\ UNCHANGED <<decls, reg, semErrors>>

InBody == Running("functions") /\ semPc.inside = "func" /\ semFuel.stmts > 0

\* _analyze_var_declaration for `var n: tn;` (init = NoName) and for
\* `var n: tn = init.new();`
SemVarDecl(n, tn, init) ==
    /\ InBody
    /\ LET resolved == ResolveType(reg, tn)
           var_type == IF resolved = NoType THEN PrimitiveT("int") ELSE resolved
           e1 == IF resolved = NoType THEN <<SemError("UnknownType", tn.base)>>
                 ELSE <<>>
           defined == Define(scopes, n, Symbol(var_type, init))
           value == IF init = NoName THEN Typed(NoType, <<>>)
                    ELSE AnalyzeNewCall(reg, defined, init)
           e2 == IF value.type # NoType /\ ~TypesCompatible(reg, var_type, value.type)
                 THEN <<SemError("TypeMismatch", n)>> ELSE <<>>
       IN IF DefineFails(scopes, n)
          THEN /\ raised' = "NameError"
               /\ semErrors' = semErrors \o e1
               /\ semLast' = Stmt("vardecl", n, init, tn, Len(e1))
               /\ UNCHANGED scopes
          ELSE /\ scopes' = defined
               /\ semErrors' = semErrors \o e1 \o value.errs \o e2
               /\ semLast' = Stmt("vardecl", n, init, tn,
                                  Len(e1) + Len(value.errs) + Len(e2))
               /\ UNCHANGED raised
    /\ semFuel' = [semFuel EXCEPT !.stmts = @ - 1]
    /\ UNCHANGED <<decls, reg, semPc>>

\* _analyze_literal: the type registered under the literal's type name; the
\* value of the literal is not looked at.
AnalyzeLiteral(r, literal_type) == Typed(RegistryGet(r, literal_type), <<>>)

\* _analyze_var_declaration for `var n: str = D"...{placeholder}...";`
SemDstringDecl(n, placeholder) ==
    /\ InBody
    /\ LET var_type == RegistryGet(reg, "str")
           value == AnalyzeLiteral(reg, "d_str")
           e2 == IF value.type # NoType /\ ~TypesCompatible(reg, var_type, value.type)
                 THEN <<SemError("TypeMismatch", n)>> ELSE <<>>
       IN IF DefineFails(scopes, n)
          THEN /\ raised' = "NameError"
               /\ semLast' = Stmt("dstring", n, placeholder, TypeName("str", FALSE), 0)
               /\ UNCHANGED <<scopes, semErrors>>
          ELSE /\ scopes' = Define(scopes, n, Symbol(var_type, NoName))
               /\ semErrors' = semErrors \o value.errs \o e2
               /\ semLast' = Stmt("dstring", n, placeholder, TypeName("str", FALSE),
                                  Len(value.errs) + Len(e2))
               /\ UNCHANGED raised
    /\ semFuel' = [semFuel EXCEPT !.stmts = @ - 1]
    /\ UNCHANGED <<decls, reg, semPc>>

\* _analyze_statement on the ExpressionStatement `obj.member();`
SemCall(obj, member) ==
    /\ InBody
    /\ LET errs == MethodCallErrors(reg, scopes, obj, member)
       IN /\ semErrors' = semErrors \o errs
          /\ semLast' = Stmt("call", obj, member, TypeName(NoName, FALSE), Len(errs))
    /\ semFuel' = [semFuel EXCEPT !.stmts = @ - 1]
    /\ UNCHANGED <<decls, reg, scopes, semPc, raised>>

\* _analyze_method_call on `fn(1, ..., 1)` with nargs int literals, fn a
\* bare identifier: _analyze_identifier resolves the callee in the scope
\* chain as it is now (current_class is None in a function body), then the
\* argument count is compared with the callee's parameter list.
FunctionCallErrors(sc, fn, nargs) ==
    LET sym == Resolve(sc, fn)
    IN IF sym = NoSymbol THEN <<SemError("UndefinedIdentifier", fn)>>
       ELSE IF sym.type.kind # "function" THEN <<>>
       ELSE IF Len(sym.type.param_types) # nargs
       THEN <<SemError("WrongArgumentCount", fn)>>
       ELSE <<>>

\* _analyze_statement on the ExpressionStatement `fn(1, ..., 1);`
SemCallFunction(fn, nargs) ==
    /\ InBody
    /\ LET errs == FunctionCallErrors(scopes, fn, nargs)
       IN /\ semErrors' = semErrors \o errs
          /\ semLast' = Stmt("fcall", fn, NoName, TypeName(NoName, FALSE), Len(errs))
    /\ semFuel' = [semFuel EXCEPT !.stmts = @ - 1]
    /\ UNCHANGED <<decls, reg, scopes, semPc, raised>>

\* _analyze_if / _analyze_while on a literal condition, up to the block
SemBlockEnter ==
    /\ InBody
    /\ Len(scopes) <= MaxDepth + 1
    /\ scopes' = EnterScope(scopes, "block")
    /\ semLast' = NoStmt
    /\ semFuel' = [semFuel EXCEPT !.stmts = @ - 1]
    /\ UNCHANGED <<decls, reg, semErrors, semPc, raised>>

\* _analyze_if / _analyze_while, after the block
SemBlockExit ==
    /\ Running("functions")
    /\ semPc.inside = "func"
    /\ scopes[Len(scopes)].name = "block"
    /\ scopes' = ExitScope(scopes)
    /\ semLast' = NoStmt
    /\ UNCHANGED <<decls, reg, semErrors, semPc, semFuel, raised>>

\* _analyze_function, after the body
SemFunctionExit ==
    /\ Running("functions")
    /\ semPc.inside = "func"
    /\ scopes[Len(scopes)].name = "function"
    /\ scopes' = ExitScope(scopes)
    /\ semPc' = [semPc EXCEPT !.inside = "none"]
    /\ semLast' = NoStmt
    /\ UNCHANGED <<decls, reg, semErrors, semFuel, raised>>

\* analyze(), after the fourth pass: one SemanticError if errors were recorded
SemFinish ==
    /\ Running("functions")
    /\ semPc.inside = "none"
    /\ IF semErrors # <<>>
       THEN raised' = "SemanticError" /\ UNCHANGED semPc
       ELSE semPc' = [semPc EXCEPT !.pass = "done"] /\ UNCHANGED raised
    /\ UNCHANGED <<decls, semLast, reg, scopes, semErrors, semFuel>>

(***************************************************************************)
(*              CODE GENERATOR: the body of one function                   *)
(***************************************************************************)
\* The statements of a straight-line body: `var n: tn;` (init = NoName),
\* `var n: tn = init.new();` and `obj.member();`
VariableDeclaration(n, tn, init) ==
    [kind |-> "vardecl", name |-> n, tname |-> tn, init |-> init, member |-> NoName]
ExpressionStatement(obj, member) ==
    [kind |-> "call", name |-> obj, tname |-> TypeName(NoName, FALSE),
     init |-> NoName, member |-> member]

NoLocals == [n \in VarNames |-> NoType]

GenIdle ==
    /\ ast = <<>>
    /\ locals = NoLocals
    /\ emitted = <<>>
    /\ genPc = [phase |-> "idle", i |-> 0]

GenInit ==
    /\ ast = <<>>
    /\ locals = NoLocals
    /\ emitted = <<>>
    /\ genPc = [phase |-> "analysis", i |-> 0]

\* The body of the function holds stmt as its next statement.
BodyStatement(stmt) ==
    /\ genPc.phase = "analysis"
    /\ ast' = Append(ast, stmt)
    /\ UNCHANGED <<locals, emitted, genPc>>

\* PointerValidator._validate_statement / _validate_block / _validate_function
\* on a straight-line body: the unclean pointers at the exit of the function.
ValidateStatement(fr, st) ==
    IF st.kind = "vardecl"
    THEN IF st.init # NoName THEN [fr EXCEPT ![1].tr = Allocate(@, st.name)] ELSE fr
    ELSE IF st.member = "release" THEN SetState(fr, st.name, RELEASED)
    ELSE IF st.member = "clean" THEN SetState(fr, st.name, CLEANED)
    ELSE fr
RECURSIVE ValidateBlock(_, _)
ValidateBlock(fr, stmts) ==
    IF stmts = <<>> THEN fr
    ELSE ValidateBlock(ValidateStatement(fr, Head(stmts)), Tail(stmts))
ValidateFunction(stmts) ==
    GetUncleanPointers(ValidateBlock(<<[tr |-> NewTracker]>>, stmts)[1].tr)

\* CodeGenerator._infer_type on an Identifier of a function body: the local
\* variable types first, then the symbol table (at its global scope).
InferType(lv, sc, n) == IF lv[n] # NoType THEN lv[n] ELSE Resolve(sc, n).type

\* The instruction `call @<cls>_<fn>(%class.<cls>* <value of this>)` emitted
\* for statement i; a constructor call takes no argument.
Call(i, cls, fn, this) == [at |-> i, cls |-> cls, fn |-> fn, this |-> this]

\* CodeGenerator._generate_method_call on `obj.member()`, member other than
\* `new`: the call instructions emitted.
GenerateMethodCall(r, lv, sc, i, obj, member) ==
    LET obj_type == InferType(lv, sc, obj)
        actual_type == Pointee(r, obj_type)
    IN IF obj_type = NoType THEN <<>>
       ELSE IF actual_type.kind # "class" THEN <<>>
       ELSE IF MethodOwner(r, actual_type.name, member) = NoName THEN <<>>
       ELSE IF GetMethod(r, actual_type.name, member).name = "clean"
       THEN <<Call(i, actual_type.name, "clean_impl", obj)>>
       ELSE <<Call(i, actual_type.name, member, obj)>>

\* CodeGenerator._get_llvm_type: the element type, and whether it is a
\* pointer to a class struct.
LlvmType(base, classPtr) == [base |-> base, classPtr |-> classPtr]
GetLlvmType(t) ==
    IF t.kind = "primitive"
    THEN LlvmType(CASE t.name = "int" -> "i32" [] t.name = "float" -> "float"
                    [] t.name = "double" -> "double" [] t.name = "boolean" -> "i1"
                    [] t.name = "byte" -> "i8" [] t.name = "short" -> "i16"
                    [] t.name = "long" -> "i64", FALSE)
    ELSE IF t.kind = "void" THEN LlvmType("void", FALSE)
    ELSE IF t.kind = "pointer" THEN LlvmType(t.name, TRUE)
    ELSE LlvmType(t.name, FALSE)

\* CodeGenerator._generate_class_struct: the element types of `%class.<c>`,
\* the vtable pointer first, then the field map in its order.
GenerateClassStruct(r, c) ==
    <<LlvmType("i8**", FALSE)>> \o
        [i \in 1..Len(r[c].fields) |-> GetLlvmType(r[c].fields[i].type)]

\* main(): code generation starts once analyze() has returned and the pointer
\* validator has reported no error; _generate_function, up to the body.
GenFunctionEnter ==
    /\ genPc.phase = "analysis"
    /\ semPc.pass = "done"
    /\ ValidateFunction(ast) = <<>>
    /\ locals' = NoLocals
    /\ genPc' = [phase |-> "body", i |-> 1]
    /\ UNCHANGED <<ast, emitted>>

GenAt(kind) ==
    /\ genPc.phase = "body"
    /\ genPc.i <= Len(ast)
    /\ ast[genPc.i].kind = kind

\* _generate_var_declaration
GenVarDeclaration ==
    /\ GenAt("vardecl")
    /\ LET stmt == ast[genPc.i] IN
          /\ locals' = [locals EXCEPT ![stmt.name] = ResolveType(reg, stmt.tname)]
          /\ emitted' = IF stmt.init = NoName THEN emitted
                        ELSE Append(emitted, Call(genPc.i, stmt.init, "new", NoName))
    /\ genPc' = [genPc EXCEPT !.i = @ + 1]
    /\ UNCHANGED ast

\* _generate_statement on an ExpressionStatement holding a MethodCall
GenExpressionStatement ==
    /\ GenAt("call")
    /\ LET stmt == ast[genPc.i] IN
          emitted' = emitted \o GenerateMethodCall(reg, locals, scopes, genPc.i,
                                                   stmt.name, stmt.member)
    /\ genPc' = [genPc EXCEPT !.i = @ + 1]
    /\ UNCHANGED <<ast, locals>>

\* _generate_function, after the body
GenFunctionExit ==
    /\ genPc.phase = "body"
    /\ genPc.i > Len(ast)
    /\ genPc' = [genPc EXCEPT !.phase = "done"]
    /\ UNCHANGED <<ast, locals, emitted>>

(***************************************************************************)
(*                          DRIVER (main.py)                               *)
(***************************************************************************)
\* The five stages in the order of main(), then the output steps.
StageOrder == <<"lex", "parse", "semantic", "pointer", "codegen">>
ToolOrder == <<"write", "llc", "link">>
StepOrder == StageOrder \o ToolOrder
Steps == {StepOrder[i] : i \in 1..Len(StepOrder)}
Stages == {StageOrder[i] : i \in 1..Len(StageOrder)}

Flags == [tokens : BOOLEAN, ast : BOOLEAN, emit_llvm : BOOLEAN,
          emit_asm : BOOLEAN, compile_only : BOOLEAN]

NotExited == 0 - 1

DrvInit ==
    /\ drvPc = "start"
    /\ args \in Flags
    /\ outcome = [s \in Steps |-> "notrun"]
    /\ warned = {}
    /\ irWritten = FALSE
    /\ exitStatus = NotExited

DrvIdle ==
    /\ drvPc = "idle"
    /\ args = [tokens |-> FALSE, ast |-> FALSE, emit_llvm |-> FALSE,
               emit_asm |-> FALSE, compile_only |-> FALSE]
    /\ outcome = [s \in Steps |-> "notrun"]
    /\ warned = {}
    /\ irWritten = FALSE
    /\ exitStatus = NotExited

\* `return 0` from main() and `sys.exit(1)`: the process ends.
Exit(status) ==
    /\ drvPc' = "exit"
    /\ exitStatus' = status

\* The three except clauses of main(): a SyntaxError, a SemanticError and
\* any other Exception all end in sys.exit(1).
Caught(result) == result \in {"SyntaxError", "SemanticError", "Exception"}

\* The source file is looked up; a missing file ends the process.
DrvStart(exists) ==
    /\ drvPc = "start"
    /\ IF exists THEN drvPc' = "lex" /\ UNCHANGED exitStatus ELSE Exit(1)
    /\ UNCHANGED <<args, outcome, warned, irWritten>>

\* Lexer(source_code).tokenize(), then the --tokens dump
DrvLex(result) ==
    /\ drvPc = "lex"
    /\ outcome' = [outcome EXCEPT !["lex"] = result]
    /\ IF Caught(result) THEN Exit(1)
       ELSE IF args.tokens THEN Exit(0)
       ELSE drvPc' = "parse" /\ UNCHANGED exitStatus
    /\ UNCHANGED <<args, warned, irWritten>>

\* Parser(tokens).parse(), then the --ast dump
DrvParse(result) ==
    /\ drvPc = "parse"
    /\ outcome' = [outcome EXCEPT !["parse"] = result]
    /\ IF Caught(result) THEN Exit(1)
       ELSE IF args.ast THEN Exit(0)
       ELSE drvPc' = "semantic" /\ UNCHANGED exitStatus
    /\ UNCHANGED <<args, warned, irWritten>>

\* analyzer.analyze(ast); the warnings are printed when it returns.
DrvSemantic(result, warnings) ==
    /\ drvPc = "semantic"
    /\ outcome' = [outcome EXCEPT !["semantic"] = result]
    /\ IF Caught(result) THEN Exit(1) /\ UNCHANGED warned
       ELSE /\ drvPc' = "pointer"
            /\ warned' = IF warnings THEN warned \cup {"semantic"} ELSE warned
            /\ UNCHANGED exitStatus
    /\ UNCHANGED <<args, irWritten>>

\* A driver that carries on after pointer-cleanup errors.
PointerCleanupIgnored(ptr_errors) == FALSE
\* `if ptr_errors: ... raise PointerCleanupError(...)`
PointerCleanupFails(ptr_errors) == ptr_errors

\* pointer_validator.validate(ast): the warnings are printed, and a
\* non-empty error list raises PointerCleanupError.
DrvPointer(ptr_errors, ptr_warnings) ==
    /\ drvPc = "pointer"
    /\ outcome' = [outcome EXCEPT !["pointer"] = IF ptr_errors THEN "errors" ELSE "ok"]
    /\ warned' = IF ptr_warnings THEN warned \cup {"pointer"} ELSE warned
    /\ IF PointerCleanupFails(ptr_errors) THEN Exit(1)
       ELSE drvPc' = "codegen" /\ UNCHANGED exitStatus
    /\ UNCHANGED <<args, irWritten>>

\* codegen.generate(ast)
DrvCodegen(result) ==
    /\ drvPc = "codegen"
    /\ outcome' = [outcome EXCEPT !["codegen"] = result]
    /\ IF Caught(result) THEN Exit(1)
       ELSE drvPc' = "write" /\ UNCHANGED exitStatus
    /\ UNCHANGED <<args, warned, irWritten>>

\* The IR is written: to the output file under --emit-llvm (and main
\* returns), else to the .ll file next to the source.
DrvWrite(result) ==
    /\ drvPc = "write"
    /\ outcome' = [outcome EXCEPT !["write"] = result]
    /\ irWritten' = (result = "ok")
    /\ IF Caught(result) THEN Exit(1)
       ELSE IF args.emit_llvm THEN Exit(0)
       ELSE drvPc' = "llc" /\ UNCHANGED exitStatus
    /\ UNCHANGED <<args, warned>>

\* llc to assembly under --emit-asm (and main returns), else llc to an
\* object file; a non-zero return code or a failure to start llc exits 1.
DrvLlc(result) ==
    /\ drvPc = "llc"
    /\ outcome' = [outcome EXCEPT !["llc"] = result]
    /\ IF result # "ok" THEN Exit(1)
       ELSE IF args.emit_asm \/ args.compile_only THEN Exit(0)
       ELSE drvPc' = "link" /\ UNCHANGED exitStatus
    /\ UNCHANGED <<args, warned, irWritten>>

\* clang links the executable.
DrvLink(result) ==
    /\ drvPc = "link"
    /\ outcome' = [outcome EXCEPT !["link"] = result]
    /\ IF result # "ok" THEN Exit(1) ELSE Exit(0)
    /\ UNCHANGED <<args, warned, irWritten>>

(***************************************************************************)
(* Code generator: the statements of a function body                       *)
(* (codegen/codegen.py, _generate_function and the _generate_* it calls).  *)
(***************************************************************************)
IntVars == {"v", "w"}
NoD == 0 - 1

\* One emitted instruction: what it does, the variable and the D-string it
\* is about.
Instr(op, var, d) == [op |-> op, var |-> var, d |-> d]

NewCodeGenerator ==
    [local_vars |-> {},
     dstring_var_refs |-> [n \in IntVars |-> <<>>],
     active_dstrings |-> {},
     dstring_variables |-> [n \in StrVars |-> NoD],
     dstring_counter |-> 0,
     has_returned |-> FALSE]

EmIdle ==
    /\ cg = NewCodeGenerator
    /\ output = <<>>
    /\ emPc = [phase |-> "off", fuel |-> 0, funcs |-> 0, open |-> <<>>, reach |-> FALSE,
               names |-> {}]

EmInit ==
    /\ cg = NewCodeGenerator
    /\ output = <<>>
    /\ emPc = [phase |-> "idle", fuel |-> MaxEmStmts, funcs |-> MaxEmFuncs,
               open |-> <<>>, reach |-> FALSE, names |-> {}]

\* The names between braces of a D-string, in order (DStringParser.parse).
Placeholders == {<<>>, <<"v">>, <<"w">>, <<"v", "w">>, <<"v", "v">>, <<"u">>}

\* A statement can be emitted here.
EmAt ==
    /\ emPc.phase = "body"
    /\ emPc.fuel > 0

Spend == [emPc EXCEPT !.fuel = @ - 1]

\* The names the analyzer's current scope holds: the function scope, or the
\* scope _analyze_if and _analyze_while enter for the innermost open block.
CurrentScope ==
    IF emPc.open = <<>> THEN emPc.names ELSE emPc.open[Len(emPc.open)].names

\* SymbolTable.define of n in the current scope, then one statement spent.
SpendDefining(n) ==
    IF emPc.open = <<>>
    THEN [Spend EXCEPT !.names = @ \cup {n}]
    ELSE [Spend EXCEPT !.open[Len(emPc.open)].names = @ \cup {n}]

\* _generate_function up to the body: the per-function tables are reset,
\* dstring_counter is not.
EmFunctionEnter ==
    /\ emPc.phase \in {"idle", "done"}
    /\ emPc.funcs > 0
    /\ cg' = [NewCodeGenerator EXCEPT !.dstring_counter = cg.dstring_counter]
    /\ output' = Append(output, Instr("define", NoName, NoD))
    /\ emPc' = [emPc EXCEPT !.phase = "body", !.funcs = @ - 1, !.reach = TRUE,
                            !.names = {}]

\* _mark_dstrings_dirty_for_var: one call per recorded dependency.
MarkDstringsDirtyForVar(c, var_name) ==
    IF var_name \notin DOMAIN c.dstring_var_refs THEN <<>>
    ELSE LET refs == SelectSeq(c.dstring_var_refs[var_name],
                               LAMBDA id : id \in c.active_dstrings)
         IN  [i \in 1..Len(refs) |-> Instr("markDirty", var_name, refs[i])]

\* _generate_dstring_literal: the generator after it and what it emitted.
GenerateDstringLiteral(c, variables) ==
    LET id == c.dstring_counter
        var_infos == SelectSeq(variables, LAMBDA n : n \in c.local_vars)
        Times(n) == Cardinality({i \in 1..Len(var_infos) : var_infos[i] = n})
    IN  [cg |-> [c EXCEPT
                   !.dstring_counter = id + 1,
                   !.dstring_var_refs =
                       [n \in IntVars |-> @[n] \o [i \in 1..Times(n) |-> id]],
                   !.active_dstrings = @ \cup {id}],
         out |-> <<Instr("create", NoName, id)>>
                 \o [i \in 1..Len(var_infos) |-> Instr("setVar", var_infos[i], id)]
                 \o <<Instr("get", NoName, id)>>]

\* _generate_var_declaration of an int variable: var n: int = <literal>;
EmVarDeclaration(n) ==
    /\ EmAt
    /\ n \notin CurrentScope
    /\ cg' = [cg EXCEPT !.local_vars = @ \cup {n}]
    /\ output' = output \o <<Instr("alloca", n, NoD), Instr("store", n, NoD)>>
    /\ emPc' = SpendDefining(n)

\* _generate_var_declaration of var n: str = D"...{x}...";
EmDstringDeclaration(n, variables) ==
    /\ EmAt
    /\ n \notin CurrentScope
    /\ cg.dstring_counter < MaxDstrings
    /\ LET c == [cg EXCEPT !.local_vars = @ \cup {n}]
           lit == GenerateDstringLiteral(c, variables)
       IN  /\ cg' = [lit.cg EXCEPT !.dstring_variables[n] = c.dstring_counter]
           /\ output' = output \o <<Instr("alloca", n, NoD)>> \o lit.out
                               \o <<Instr("store", n, NoD)>>
    /\ emPc' = SpendDefining(n)

\* _generate_assignment of v = <literal>; to a local variable.
GenerateAssignment(c, var_name) ==
    <<Instr("store", var_name, NoD)>> \o MarkDstringsDirtyForVar(c, var_name)

\* _generate_identifier of a local variable.
GenerateIdentifier(c, name) ==
    IF name \in StrVars /\ c.dstring_variables[name] # NoD
    THEN <<Instr("get", name, c.dstring_variables[name])>>
    ELSE <<Instr("load", name, NoD)>>

\* _generate_statement of the ExpressionStatement `v = <literal>;` (a plain
\* int or str literal): _generate_expression generates the assignment and
\* then the target as the value of the expression.
EmAssignment(var_name) ==
    /\ EmAt
    /\ var_name \in cg.local_vars
    /\ output' = output \o GenerateAssignment(cg, var_name)
                        \o GenerateIdentifier(cg, var_name)
    /\ emPc' = Spend
    /\ UNCHANGED cg

\* _generate_unary of v++ or v--, as an expression statement.
EmUnary(name, operator) ==
    /\ EmAt
    /\ name \in cg.local_vars
    /\ output' = output \o GenerateIdentifier(cg, name)
                        \o <<Instr(operator, name, NoD), Instr("store", name, NoD)>>
    /\ emPc' = Spend
    /\ UNCHANGED cg

\* _generate_print of println(name);
EmPrint(name) ==
    /\ EmAt
    /\ name \in cg.local_vars
    /\ output' = output \o GenerateIdentifier(cg, name)
                        \o <<Instr("printf", name, NoD)>>
    /\ emPc' = Spend
    /\ UNCHANGED cg

\* _generate_return.
EmReturn ==
    /\ EmAt
    /\ cg' = [cg EXCEPT !.has_returned = TRUE]
    /\ output' = Append(output, Instr("ret", NoName, NoD))
    /\ emPc' = [Spend EXCEPT !.reach = FALSE]

OpenBlock(kind, has_else) ==
    [kind |-> kind, has_else |-> has_else, entry |-> emPc.reach, then |-> FALSE,
     names |-> {}]

\* _generate_if up to the then block.
EmIfEnter(has_else) ==
    /\ EmAt
    /\ Len(emPc.open) < MaxEmDepth
    /\ output' = output \o <<Instr("br", NoName, NoD), Instr("label", "then", NoD)>>
    /\ emPc' = [Spend EXCEPT !.open = Append(@, OpenBlock("then", has_else))]
    /\ UNCHANGED cg

\* _generate_if between the then block and the else block.
EmElse ==
    /\ emPc.phase = "body"
    /\ emPc.open # <<>>
    /\ LET b == emPc.open[Len(emPc.open)]
       IN  /\ b.kind = "then"
           /\ b.has_else
           /\ emPc' = [emPc EXCEPT
                         !.open[Len(emPc.open)] =
                             [b EXCEPT !.kind = "else", !.then = emPc.reach,
                                       !.names = {}],
                         !.reach = b.entry]
    /\ output' = output \o <<Instr("br", NoName, NoD), Instr("label", "else", NoD)>>
    /\ UNCHANGED cg

\* _generate_if after its last block.
EmIfEnd ==
    /\ emPc.phase = "body"
    /\ emPc.open # <<>>
    /\ LET b == emPc.open[Len(emPc.open)]
       IN  /\ \/ b.kind = "then" /\ ~b.has_else
              \/ b.kind = "else"
           /\ emPc' = [emPc EXCEPT
                         !.open = SubSeq(@, 1, Len(@) - 1),
                         !.reach = IF b.kind = "else" THEN b.then \/ emPc.reach
                                   ELSE b.entry \/ emPc.reach]
    /\ output' = output \o <<Instr("br", NoName, NoD), Instr("label", "endif", NoD)>>
    /\ UNCHANGED cg

\* _generate_while up to the body.
EmWhileEnter ==
    /\ EmAt
    /\ Len(emPc.open) < MaxEmDepth
    /\ output' = output \o <<Instr("br", NoName, NoD), Instr("label", "while_cond", NoD),
                             Instr("br", NoName, NoD), Instr("label", "while_body", NoD)>>
    /\ emPc' = [Spend EXCEPT !.open = Append(@, OpenBlock("while", FALSE))]
    /\ UNCHANGED cg

\* _generate_while after the body.
EmWhileEnd ==
    /\ emPc.phase = "body"
    /\ emPc.open # <<>>
    /\ LET b == emPc.open[Len(emPc.open)]
       IN  /\ b.kind = "while"
           /\ emPc' = [emPc EXCEPT !.open = SubSeq(@, 1, Len(@) - 1),
                                   !.reach = b.entry]
    /\ output' = output \o <<Instr("br", NoName, NoD), Instr("label", "while_end", NoD)>>
    /\ UNCHANGED cg

\* _generate_function after the body: the default return and the brace.
EmFunctionExit ==
    /\ emPc.phase = "body"
    /\ emPc.open = <<>>
    /\ output' = output \o (IF ~cg.has_returned
                            THEN <<Instr("ret", "default", NoD)>> ELSE <<>>)
                        \o <<Instr("end", NoName, NoD)>>
    /\ emPc' = [emPc EXCEPT !.phase = "done"]
    /\ UNCHANGED cg

(***************************************************************************)
(* D-string runtime: DString_create, DString_markDirty and DString_get of  *)
(* the IR template (runtime/dstring.py), on one D-string over one int      *)
(* variable x.  A heap block is "free" or holds its content.               *)
(***************************************************************************)
Addrs == 1..MaxAddr
XValues == {0, 10}
CreateBlocks == 4
NullPtr == 0

\* The %DString struct: field 2 (cache), field 7 (dirty) and the blocks that
\* DString_create allocates for the struct, the format and the two arrays.
NoDString == [blocks |-> {}, cache |-> NullPtr, cache_len |-> 0, dirty |-> FALSE]

NoCall ==
    [op |-> "none", ret |-> NullPtr, mallocs |-> 0, freed |-> {}, pre |-> NoDString,
     since |-> "none"]

\* What the program did since the last DString_get: nothing yet ("none"), a
\* store to the variable ("stored"), or a store and then DString_markDirty
\* ("marked").
Since == IF rtLast.op \in {"store", "markDirty"} THEN rtLast.since ELSE "none"

RtIdle ==
    /\ rt = [phase |-> "off", heap |-> [a \in Addrs |-> "free"], dstr |-> NoDString, x |-> 0]
    /\ rtLast = NoCall

RtInit ==
    /\ rt = [phase |-> "start", heap |-> [a \in Addrs |-> "free"], dstr |-> NoDString, x |-> 0]
    /\ rtLast = NoCall

\* The addresses malloc may return: any block that is not allocated.
Free(heap) == {a \in Addrs : heap[a] = "free"}

\* DString_itoa of the variable: its decimal digits.
Itoa(x) == IF x = 0 THEN "0" ELSE "10"

\* strlen of those digits.
Strlen(s) == IF s = "10" THEN 2 ELSE 1

\* DString_create: four mallocs, cache = null, dirty = true.
RtCreate ==
    /\ rt.phase = "start"
    /\ \E blocks \in SUBSET Free(rt.heap) :
        /\ Cardinality(blocks) = CreateBlocks
        /\ rt' = [rt EXCEPT
                    !.phase = "created",
                    !.heap = [a \in Addrs |-> IF a \in blocks THEN "data" ELSE @[a]],
                    !.dstr = [blocks |-> blocks, cache |-> NullPtr, cache_len |-> 0,
                              dirty |-> TRUE]]
        /\ rtLast' = [op |-> "create", ret |-> NullPtr, mallocs |-> CreateBlocks,
                      freed |-> {}, pre |-> rt.dstr, since |-> "none"]

\* DString_markDirty: store i1 1 to field 7.
RtMarkDirty ==
    /\ rt.phase = "created"
    /\ rt' = [rt EXCEPT !.dstr.dirty = TRUE]
    /\ rtLast' = [NoCall EXCEPT !.op = "markDirty", !.pre = rt.dstr,
                                !.since = IF Since = "none" THEN "none" ELSE "marked"]

\* The program stores to the variable the D-string references; whether a
\* DString_markDirty call follows is up to the generated code.
RtStore(value) ==
    /\ rt.phase = "created"
    /\ value \in XValues
    /\ rt.x # value
    /\ rt' = [rt EXCEPT !.x = value]
    /\ rtLast' = [NoCall EXCEPT !.op = "store", !.pre = rt.dstr, !.since = "stored"]

\* DString_get branches to regenerate on the dirty flag.
RegenerateAlways(d) == TRUE
Regenerate(d) == d.dirty

\* DString_get: when dirty, free the old cache if there is one, malloc the
\* result buffer, substitute (one more malloc, freed again), store the
\* buffer and its length, clear dirty; in both cases return field 2.
RtGet ==
    /\ rt.phase = "created"
    /\ IF Regenerate(rt.dstr)
       THEN LET old == rt.dstr.cache
                heap1 == IF old = NullPtr THEN rt.heap
                         ELSE [rt.heap EXCEPT ![old] = "free"]
            IN  \E result_buf \in Free(heap1) :
                  \E str_val \in Free(heap1) \ {result_buf} :
                    /\ rt' = [rt EXCEPT
                                !.heap = [heap1 EXCEPT ![result_buf] = Itoa(rt.x)],
                                !.dstr = [@ EXCEPT !.cache = result_buf,
                                                   !.cache_len = Strlen(Itoa(rt.x)),
                                                   !.dirty = FALSE]]
                    /\ rtLast' = [op |-> "get", ret |-> result_buf, mallocs |-> 2,
                                  freed |-> (IF old = NullPtr THEN {} ELSE {old})
                                            \cup {str_val},
                                  pre |-> rt.dstr, since |-> Since]
       ELSE /\ rt' = rt
            /\ rtLast' = [op |-> "get", ret |-> rt.dstr.cache, mallocs |-> 0,
                          freed |-> {}, pre |-> rt.dstr, since |-> Since]

(***************************************************************************)
(* String pools: CodeGenerator._collect_strings with                       *)
(* _generate_string_constants and _generate_literal (codegen/codegen.py),  *)
(* and SymbolTable.add_string_constant (sinter_types/symbol_table.py).     *)
(* A literal value is its sequence of characters.                          *)
(***************************************************************************)
Literals == {<<"a">>, <<"b", "c">>}

\* A statement: its class, the regular-string literals of its expressions in
\* source order, and the statements of its block (if, while, for).
Node(kind, lits, body) == [kind |-> kind, lits |-> lits, body |-> body]

\* The llvm name "@.str.<n>".
StrName(n) == [prefix |-> "@.str.", n |-> n]

NewPool ==
    [phase |-> "off", fuel |-> 0, runs |-> 0,
     string_constants |-> <<>>, emitted |-> <<>>,
     sym_constants |-> <<>>, string_counter |-> 0, returned |-> {}]

PoolIdle ==
    /\ prog = <<>>
    /\ pool = NewPool

PoolInit ==
    /\ prog = <<>>
    /\ pool = [NewPool EXCEPT !.phase = "parsed", !.fuel = MaxPoolStmts,
                              !.runs = MaxPoolRuns]

\* `value in self.string_constants`
PooledNever(constants, value) == FALSE
Pooled(constants, value) == DictIndex(constants, value) # 0

\* visit(node) of _collect_strings on a Literal of type "str".
VisitLiteral(constants, value) ==
    IF Pooled(constants, value) THEN constants
    ELSE Append(constants, [name |-> value, llvm |-> StrName(Len(constants)),
                            length |-> Len(value) + 1])

RECURSIVE VisitLiterals(_, _)
VisitLiterals(constants, lits) ==
    IF lits = <<>> THEN constants
    ELSE VisitLiterals(VisitLiteral(constants, Head(lits)), Tail(lits))

\* visit(node) of _collect_strings on a statement: the expressions of a
\* variable declaration, a return and an expression statement are visited,
\* and the condition and blocks of an if and a while; no other statement
\* class has a branch.
RECURSIVE Visit(_, _)
RECURSIVE VisitBlock(_, _)
Visit(constants, node) ==
    IF node.kind \in {"VariableDeclaration", "ReturnStatement", "ExpressionStatement"}
    THEN VisitLiterals(constants, node.lits)
    ELSE IF node.kind \in {"IfStatement", "WhileStatement"}
    THEN VisitBlock(VisitLiterals(constants, node.lits), node.body)
    ELSE constants
VisitBlock(constants, stmts) ==
    IF stmts = <<>> THEN constants
    ELSE VisitBlock(Visit(constants, Head(stmts)), Tail(stmts))

\* _generate_literal of a regular string: the named constant, or null.
GenerateLiteral(constants, value) ==
    IF Pooled(constants, value) THEN constants[DictIndex(constants, value)].llvm
    ELSE StrName(NoD)

\* The parser appends a statement to the program.
PoolStatement(node) ==
    /\ pool.phase = "parsed"
    /\ pool.fuel > 0
    /\ prog' = Append(prog, node)
    /\ pool' = [pool EXCEPT !.fuel = @ - 1]

\* generate(): _collect_strings(ast), then _generate_string_constants().
PoolCollectStrings ==
    /\ pool.phase \in {"parsed", "collected"}
    /\ pool.runs > 0
    /\ LET constants == VisitBlock(pool.string_constants, prog)
       IN  pool' = [pool EXCEPT
                      !.phase = "collected",
                      !.runs = @ - 1,
                      !.string_constants = constants,
                      !.emitted = [i \in 1..Len(constants) |-> constants[i].llvm]]
    /\ UNCHANGED prog

\* SymbolTable.add_string_constant(value)
SymAddStringConstant(value) ==
    /\ pool.phase # "off"
    /\ Cardinality(pool.returned) < MaxPoolAdds
    /\ IF DictIndex(pool.sym_constants, value) # 0
       THEN LET name == pool.sym_constants[DictIndex(pool.sym_constants, value)].llvm
            IN  pool' = [pool EXCEPT !.returned = @ \cup {<<value, name, Cardinality(@)>>}]
       ELSE LET name == StrName(pool.string_counter)
            IN  pool' = [pool EXCEPT
                           !.string_counter = @ + 1,
                           !.sym_constants = Append(@, [name |-> value, llvm |-> name]),
                           !.returned = @ \cup {<<value, name, Cardinality(@)>>}]
    /\ UNCHANGED prog

(***************************************************************************)
(* Class bodies: Parser.parse_class (parser/parser.py) and                 *)
(* SemanticAnalyzer._analyze_class / _analyze_field / _analyze_method      *)
(* (semantic/analyzer.py) on the members of one class.                     *)
(***************************************************************************)
Visibilities == {"private", "protected", "public"}
MemberNames == {"x", "y", "m"}

\* FieldDeclaration / MethodDeclaration: neither has a visibility attribute.
\* A ScopeBlock has a visibility and members.
Member(kind, name, serializable) ==
    [kind |-> kind, name |-> name, serializable |-> serializable,
     visibility |-> "public", members |-> <<>>]

NewClassBody ==
    [phase |-> "off", fuel |-> 0,
     current_visibility |-> "public", members |-> <<>>, under |-> <<>>,
     i |-> 0, visibility |-> "public", infos |-> <<>>, errors |-> <<>>]

CbIdle == cb = NewClassBody
CbInit == cb = [NewClassBody EXCEPT !.phase = "parse", !.fuel = MaxClassItems]

\* parse_class on `private:`, `protected:` or `public:`.
CbLabel(v) ==
    /\ cb.phase = "parse"
    /\ cb.fuel > 0
    /\ cb' = [cb EXCEPT !.fuel = @ - 1, !.current_visibility = v]

\* parse_class on a member: parse_class_member(current_visibility) builds the
\* declaration and drops the visibility it was given.
CbMember(kind, name, serializable) ==
    /\ cb.phase = "parse"
    /\ cb.fuel > 0
    /\ \A j \in 1..Len(cb.members) : cb.members[j].name # name
    /\ cb' = [cb EXCEPT !.fuel = @ - 1,
                        !.members = Append(@, Member(kind, name, serializable)),
                        !.under = Append(@, cb.current_visibility)]

\* parse_class on the closing brace; the analyzer enters _analyze_class.
CbClassEnd ==
    /\ cb.phase = "parse"
    /\ cb' = [cb EXCEPT !.phase = "analyze", !.i = 1, !.visibility = "public"]

\* _analyze_field / _analyze_method with the visibility handed down: the info
\* added to the class and the errors recorded.
AnalyzeClassMember(member, visibility) ==
    [info |-> [name |-> member.name, visibility |-> visibility,
               is_serializable |-> member.serializable],
     errs |-> IF member.kind = "FieldDeclaration" /\ member.serializable
                 /\ visibility # "public"
              THEN <<SemError("NotPublicSerializable", member.name)>> ELSE <<>>]

RECURSIVE AnalyzeClassMembers(_, _)
AnalyzeClassMembers(members, visibility) ==
    IF members = <<>> THEN [infos |-> <<>>, errs |-> <<>>]
    ELSE LET first == AnalyzeClassMember(Head(members), visibility)
             rest == AnalyzeClassMembers(Tail(members), visibility)
         IN  [infos |-> <<first.info>> \o rest.infos, errs |-> first.errs \o rest.errs]

\* One round of the loop of _analyze_class: a ScopeBlock sets
\* current_visibility for its members and the members after it; any other
\* member is analysed with current_visibility.
CbAnalyzeMember ==
    /\ cb.phase = "analyze"
    /\ cb.i <= Len(cb.members)
    /\ LET member == cb.members[cb.i]
           current_visibility == IF member.kind = "ScopeBlock" THEN member.visibility
                                 ELSE cb.visibility
           done == IF member.kind = "ScopeBlock"
                   THEN AnalyzeClassMembers(member.members, current_visibility)
                   ELSE AnalyzeClassMembers(<<member>>, current_visibility)
       IN  cb' = [cb EXCEPT !.i = @ + 1,
                            !.visibility = current_visibility,
                            !.infos = @ \o done.infos,
                            !.errors = @ \o done.errs]

\* _analyze_class after the last member.
CbAnalyzeEnd ==
    /\ cb.phase = "analyze"
    /\ cb.i > Len(cb.members)
    /\ cb' = [cb EXCEPT !.phase = "done"]

(***************************************************************************)
(*                      SYMBOL TABLE, CALLED DIRECTLY                      *)
(***************************************************************************)
TabNames == VarNames \cup StrVars
TabTypes == {PrimitiveT("int"), PrimitiveT("long")}

\* SymbolTable.__init__: scope_stack is [global_scope].  tab.scopes is the
\* parent chain of current_scope, global_scope first.
NewSymbolTable ==
    [scopes |-> <<NewScope("global")>>, scope_stack |-> 1, exited |-> {}]

TabCall(op, n, exc, sym, shadows, before, calls) ==
    [op |-> op, name |-> n, raised |-> exc, symbol |-> sym,
     shadows |-> shadows, before |-> before, calls |-> calls]
NoTabCall == TabCall("none", NoName, "none", NoSymbol, FALSE, NewSymbolTable, 0)

TabIdle ==
    /\ tab = NewSymbolTable
    /\ tabLast = NoTabCall

TabInit == TabIdle

\* SymbolTable.enter_scope: the new scope's parent is current_scope.
TabEnterScope(n) ==
    /\ tabLast.calls < MaxTabCalls
    /\ Len(tab.scopes) < MaxTabDepth
    /\ tab' = [tab EXCEPT !.scopes = EnterScope(@, n),
                          !.scope_stack = @ + 1]
    /\ tabLast' = TabCall("enter_scope", n, "none", NoSymbol, FALSE, tab,
                          tabLast.calls + 1)

\* SymbolTable.exit_scope: pop() of an empty scope_stack raises IndexError;
\* with the stack emptied current_scope is global_scope, which is never left.
TabExitScope ==
    /\ tabLast.calls < MaxTabCalls
    /\ IF tab.scope_stack = 0
       THEN /\ UNCHANGED tab
            /\ tabLast' = TabCall("exit_scope", NoName, "IndexError", NoSymbol,
                                  FALSE, tab, tabLast.calls + 1)
       ELSE /\ tab' = IF Len(tab.scopes) > 1
                      THEN [scopes |-> ExitScope(tab.scopes),
                            scope_stack |-> tab.scope_stack - 1,
                            exited |-> tab.exited
                                       \cup {tab.scopes[Len(tab.scopes)]}]
                      ELSE [tab EXCEPT !.scope_stack = @ - 1]
            /\ tabLast' = TabCall("exit_scope", NoName, "none", NoSymbol,
                                  FALSE, tab, tabLast.calls + 1)

\* SymbolTable.define
TabDefine(n, t) ==
    /\ tabLast.calls < MaxTabCalls
    /\ LET symbol == Symbol(t, NoName)
           shadows == Resolve(tab.scopes, n) # NoSymbol
       IN IF DefineFails(tab.scopes, n)
          THEN /\ UNCHANGED tab
               /\ tabLast' = TabCall("define", n, "NameError", NoSymbol,
                                     shadows, tab, tabLast.calls + 1)
          ELSE /\ tab' = [tab EXCEPT !.scopes = Define(@, n, symbol)]
               /\ tabLast' = TabCall("define", n, "none", symbol, shadows, tab,
                                     tabLast.calls + 1)

\* SymbolTable.resolve
TabResolve(n) ==
    /\ tabLast.calls < MaxTabCalls
    /\ UNCHANGED tab
    /\ tabLast' = TabCall("resolve", n, "none", Resolve(tab.scopes, n),
                          Cardinality({i \in DOMAIN tab.scopes :
                              tab.scopes[i].symbols[n] # NoSymbol}) > 1,
                          tab, tabLast.calls + 1)

(***************************************************************************)
(*                                 LEXER                                   *)
(***************************************************************************)
\* The source is a sequence of characters.  NoChar is the None that
\* current_char and peek_char return past the end of the source.
NoChar == "None"
OperatorChars == {"+", "-", "*", "/", "%", "=", "!", "<", ">", "&", "|", "^"}
Chars == OperatorChars \cup {" ", "#"}

\* The characters of literals, names, annotations and comments: str.isdigit
\* holds of Digits, str.isalpha of Letters.  No keyword of Lexer.KEYWORDS is
\* spelled with these letters.
Digits == {"1"}
Letters == {"a", "D", "n"}
Quotes == {"\"", "'"}
StringChars == Quotes \cup {"\\", "a", "D", "n"}
NumberChars == Digits \cup {".", "a", "_", " "}
AnnotationChars == {"@", "a", "(", ")", "\""}
CommentChars == {"/", "*", "\n", "\"", " "}
TextFamilies == {StringChars, NumberChars, AnnotationChars, CommentChars}

\* The string a character sequence spells.
RECURSIVE Lexeme(_)
Lexeme(source) ==
    IF source = <<>> THEN "" ELSE Head(source) \o Lexeme(Tail(source))

Token(type, value) == [type |-> type, value |-> value]

\* Lexer.__init__; pos counts from 1.
NewLexer(source) ==
    [source |-> source, pos |-> 1, tokens |-> <<>>, raised |-> "none",
     phase |-> "scanning"]

LxIdle == lx = [NewLexer(<<>>) EXCEPT !.phase = "idle"]

LxInit == LxIdle

\* Lexer.current_char, and Lexer.peek_char for offset = pos - l.pos
CharAt(source, pos) == IF pos > Len(source) THEN NoChar ELSE source[pos]

\* Lexer.skip_whitespace
RECURSIVE SkipWhitespace(_, _)
SkipWhitespace(source, pos) ==
    IF CharAt(source, pos) \in {" ", "\t", "\r", "\n"}
    THEN SkipWhitespace(source, pos + 1)
    ELSE pos

\* Lexer.skip_comment: the position after the comment that starts at pos.
RECURSIVE SkipLine(_, _)
SkipLine(source, pos) ==
    IF CharAt(source, pos) \in {NoChar, "\n"} THEN pos
    ELSE SkipLine(source, pos + 1)
RECURSIVE SkipBlock(_, _)
SkipBlock(source, pos) ==
    IF CharAt(source, pos) = NoChar THEN pos
    ELSE IF CharAt(source, pos) = "*" /\ CharAt(source, pos + 1) = "/"
         THEN pos + 2
         ELSE SkipBlock(source, pos + 1)
\* A skip_comment that consumes nothing.
SkipNothing(source, pos) == pos

SkipComment(source, pos) ==
    IF CharAt(source, pos) = "/" /\ CharAt(source, pos + 1) = "/"
    THEN SkipLine(source, pos)
    ELSE IF CharAt(source, pos) = "/" /\ CharAt(source, pos + 1) = "*"
         THEN SkipBlock(source, pos + 2)
         ELSE pos

\* Lexer.read_string from the opening quote at pos: the position after the
\* closing quote and the value read, or ok = FALSE where it raises.
RECURSIVE ReadStringFrom(_, _, _, _)
ReadStringFrom(source, pos, quote_char, value) ==
    LET char == CharAt(source, pos)
        esc == CharAt(source, pos + 1)
    IN IF char = NoChar THEN [ok |-> FALSE, pos |-> pos, value |-> value]
       ELSE IF char = quote_char
       THEN [ok |-> TRUE, pos |-> pos + 1, value |-> value]
       ELSE IF char = "\\"
       THEN IF esc = NoChar
            THEN ReadStringFrom(source, pos + 1, quote_char, value \o "\\")
            ELSE ReadStringFrom(source, pos + 2, quote_char,
                     value \o (CASE esc = "n" -> "\n"
                                 [] esc = "t" -> "\t"
                                 [] esc = "\\" -> "\\"
                                 [] esc = quote_char -> quote_char
                                 [] OTHER -> "\\" \o esc))
       ELSE ReadStringFrom(source, pos + 1, quote_char, value \o char)
ReadString(source, pos) ==
    ReadStringFrom(source, pos + 1, CharAt(source, pos), "")

\* The position after the characters of the set cs that start at pos.
RECURSIVE ReadWhile(_, _, _)
ReadWhile(source, pos, cs) ==
    IF CharAt(source, pos) \in cs THEN ReadWhile(source, pos + 1, cs) ELSE pos

\* Lexer.read_number: the position after the number that starts at pos.
ReadNumber(source, pos) ==
    LET p == ReadWhile(source, pos, Digits)
    IN IF CharAt(source, p) = "."
       THEN [pos |-> ReadWhile(source, p + 1, Digits), type |-> "FLOAT_LITERAL"]
       ELSE [pos |-> p, type |-> "INTEGER_LITERAL"]

\* Lexer.read_identifier_or_keyword
ReadIdentifierOrKeyword(source, pos) ==
    ReadWhile(source, pos, Letters \cup Digits \cup {"_"})

\* Lexer.read_annotation from the @ at pos: the position after it.
RECURSIVE ReadParens(_, _, _)
ReadParens(source, pos, paren_count) ==
    IF CharAt(source, pos) = NoChar \/ paren_count = 0 THEN pos
    ELSE ReadParens(source, pos + 1,
             IF CharAt(source, pos) = "(" THEN paren_count + 1
             ELSE IF CharAt(source, pos) = ")" THEN paren_count - 1
             ELSE paren_count)
ReadAnnotation(source, pos) ==
    LET p == ReadWhile(source, pos + 1, Letters \cup Digits \cup {"_"})
    IN IF CharAt(source, p) = "(" THEN ReadParens(source, p + 1, 1) ELSE p

\* The operator branches of Lexer.tokenize: the token for char with peek
\* after it.  A token of type "LexerError" stands for the branch that raises
\* LexerError, a name the module does not define.
OperatorToken(char, peek) ==
    CASE char = "+" -> IF peek = "+" THEN Token("INCREMENT", "++")
                       ELSE IF peek = "=" THEN Token("PLUS_ASSIGN", "+=")
                       ELSE Token("PLUS", "+")
      [] char = "-" -> IF peek = ">" THEN Token("ARROW", "->")
                       ELSE IF peek = "-" THEN Token("DECREMENT", "--")
                       ELSE IF peek = "=" THEN Token("MINUS_ASSIGN", "-=")
                       ELSE Token("MINUS", "-")
      [] char = "*" -> Token("DEREFERENCE", "*")
      [] char = "&" -> IF peek = "&" THEN Token("AND", "&&")
                       ELSE Token("ADDRESS_OF", "&")
      [] char = "|" -> IF peek = "|" THEN Token("OR", "||")
                       ELSE Token("LexerError", "")
      [] char = "^" -> Token("MULTIPLY", "^")
      [] char = "=" -> IF peek = "=" THEN Token("EQUALS", "==")
                       ELSE Token("ASSIGN", "=")
      [] char = "!" -> IF peek = "=" THEN Token("NOT_EQUALS", "!=")
                       ELSE Token("NOT", "!")
      [] char = "<" -> IF peek = "=" THEN Token("LESS_EQUAL", "<=")
                       ELSE Token("LEFT_ANGLE", "<")
      [] char = ">" -> IF peek = "=" THEN Token("GREATER_EQUAL", ">=")
                       ELSE Token("RIGHT_ANGLE", ">")
      [] char = "/" -> IF peek = "=" THEN Token("DIVIDE_ASSIGN", "/=")
                       ELSE Token("DIVIDE", "/")
      [] char = "%" -> IF peek = "=" THEN Token("MODULO", "%=")
                       ELSE Token("MODULO", "%")
      [] char = "(" -> Token("LEFT_PAREN", "(")
      [] char = ")" -> Token("RIGHT_PAREN", ")")
      [] char = "." -> Token("DOT", ".")
      [] OTHER -> Token("SyntaxError", "")

\* Lexer(source)
LexNew(source) ==
    /\ lx.phase = "idle"
    /\ lx' = NewLexer(source)

\* One turn of the loop of Lexer.tokenize.
LexScan ==
    /\ lx.phase = "scanning"
    /\ lx.pos <= Len(lx.source)
    /\ LET pos == SkipWhitespace(lx.source, lx.pos)
           char == CharAt(lx.source, pos)
           peek == CharAt(lx.source, pos + 1)
           token == OperatorToken(char, peek)
           dynamic == char = "D" /\ peek \in Quotes
           string == ReadString(lx.source, IF dynamic THEN pos + 1 ELSE pos)
           number == ReadNumber(lx.source, pos)
           Text(to) == Lexeme(SubSeq(lx.source, pos, to - 1))
       IN IF pos > Len(lx.source)
          THEN lx' = [lx EXCEPT !.pos = pos]
          ELSE IF char = "/" /\ peek \in {"/", "*"}
          THEN lx' = [lx EXCEPT !.pos = SkipComment(lx.source, pos)]
          ELSE IF dynamic \/ char \in Quotes
          THEN IF string.ok
               THEN lx' = [lx EXCEPT !.pos = string.pos,
                              !.tokens = Append(@, Token(
                                  IF dynamic THEN "D_STRING_LITERAL"
                                  ELSE "STRING_LITERAL", string.value))]
               ELSE lx' = [lx EXCEPT !.pos = string.pos,
                                     !.raised = "SyntaxError",
                                     !.phase = "raised"]
          ELSE IF char = "@"
          THEN lx' = [lx EXCEPT !.pos = ReadAnnotation(lx.source, pos),
                         !.tokens = Append(@, Token("ANNOTATION",
                             Text(ReadAnnotation(lx.source, pos))))]
          ELSE IF char \in Digits
          THEN lx' = [lx EXCEPT !.pos = number.pos,
                         !.tokens = Append(@, Token(number.type,
                                                    Text(number.pos)))]
          ELSE IF char \in Letters \cup {"_"}
          THEN lx' = [lx EXCEPT !.pos = ReadIdentifierOrKeyword(lx.source, pos),
                         !.tokens = Append(@, Token("IDENTIFIER",
                             Text(ReadIdentifierOrKeyword(lx.source, pos))))]
          ELSE IF token.type = "LexerError"
          THEN lx' = [lx EXCEPT !.pos = pos, !.raised = "NameError",
                                !.phase = "raised"]
          ELSE IF token.type = "SyntaxError"
          THEN lx' = [lx EXCEPT !.pos = pos, !.raised = "SyntaxError",
                                !.phase = "raised"]
          ELSE lx' = [lx EXCEPT !.pos = pos + Len(token.value),
                                !.tokens = Append(@, token)]

\* The end of Lexer.tokenize: the EOF token.
LexEof ==
    /\ lx.phase = "scanning"
    /\ lx.pos > Len(lx.source)
    /\ lx' = [lx EXCEPT !.tokens = Append(@, Token("EOF", "")),
                        !.phase = "done"]

(***************************************************************************)
(*             POINTER VALIDATOR, STATEMENT BY STATEMENT                   *)
(***************************************************************************)
\* PointerTracker.get_state on the current tracker.
GetState(fr, n) ==
    LET i == Holder(fr, Len(fr), n) IN
    IF i = 0 THEN NoName ELSE fr[i].tr.pointers[n]

\* Parser.parse_statement: `n = C.new();` is parsed as an expression, and the
\* statement is the ExpressionStatement that holds the AssignmentStatement.
ParseAssignment(n) ==
    [kind |-> "ExpressionStatement",
     expression |-> [kind |-> "AssignmentStatement", target |-> n]]

\* _validate_assignment of `n = C.new();`
ValidateAssignment(n) ==
    /\ pvWarnings' = IF GetState(frames, n) = ALLOCATED
                     THEN pvWarnings \o ErrorsFor(<<n>>, "overwrite")
                     ELSE pvWarnings
    /\ frames' = [frames EXCEPT ![Len(frames)].tr = Allocate(CurrentTracker, n)]

\* _validate_statement on the statement parsed from `n = C.new();`: an
\* ExpressionStatement goes to _validate_expression, which looks at a
\* MethodCall only.  On the path the binding now holds a new allocation.
PVAssignAlloc(n) ==
    /\ CanVisit
    /\ LET stmt == ParseAssignment(n)
       IN IF stmt.kind = "AssignmentStatement" THEN ValidateAssignment(n)
          ELSE UNCHANGED <<frames, pvWarnings>>
    /\ path' = LET i == PathHolder(path, Len(path), n)
               IN [path EXCEPT ![IF i = 0 THEN 1 ELSE i][n] = ALLOCATED]
    /\ pvFuel' = pvFuel - 1
    /\ UNCHANGED <<pvErrors, pvPc, live, leakReturn>>

\* _validate_statement on a ForStatement or ForEachStatement whose body is
\* `var n: C* = C.new();`, followed by `return;` when returns: no case of
\* _validate_statement matches, and the body is not visited.
PVForStatement(n, returns) ==
    /\ CanVisit
    /\ leakReturn' = (leakReturn \/ (live /\ returns))
    /\ pvFuel' = pvFuel - 1
    /\ UNCHANGED <<frames, pvErrors, pvWarnings, pvPc, path, live>>

\* The state of every binding on the path.
PathStates(p) ==
    [n \in PtrNames |->
        LET i == PathHolder(p, Len(p), n) IN IF i = 0 THEN NoName ELSE p[i][n]]

NewOpen == [thenEnd |-> EmptyPointers, allocs |-> {}]
NoPvStmt ==
    [op |-> "none", name |-> NoName, count |-> 0, kind |-> "none",
     before |-> <<>>, errors |-> <<>>, warnings |-> <<>>,
     thenEnd |-> EmptyPointers, elseEnd |-> EmptyPointers, allocs |-> {}]

StmIdle ==
    /\ pvLast = NoPvStmt
    /\ pvOpen = <<>>

StmInit ==
    /\ pvLast = NoPvStmt
    /\ pvOpen = <<NewOpen>>

\* What the statement op on the name n, taken in this step, is remembered by.
Track(op, n) ==
    /\ pvLast' =
          [op |-> op, name |-> n,
           count |-> pvLast.count + (pvFuel - pvFuel'),
           kind |-> Top.kind, before |-> frames,
           errors |-> SubSeq(pvErrors', Len(pvErrors) + 1, Len(pvErrors')),
           warnings |-> SubSeq(pvWarnings', Len(pvWarnings) + 1, Len(pvWarnings')),
           thenEnd |-> pvOpen[Len(pvOpen)].thenEnd,
           elseEnd |-> PathStates(path),
           allocs |-> pvOpen[Len(pvOpen)].allocs]
    /\ pvOpen' =
          CASE op \in {"vardecl", "assign"} ->
                  [i \in DOMAIN pvOpen |->
                      [pvOpen[i] EXCEPT !.allocs = @ \cup {n}]]
            [] op \in {"if", "while"} -> Append(pvOpen, NewOpen)
            [] op = "else" ->
                  [pvOpen EXCEPT ![Len(pvOpen)] =
                      [thenEnd |-> PathStates(path), allocs |-> {}]]
            [] op \in {"endif", "endwhile"} -> SubSeq(pvOpen, 1, Len(pvOpen) - 1)
            [] OTHER -> pvOpen

\* The components below, at rest.
ExtIdle ==
    /\ EmIdle
    /\ RtIdle
    /\ PoolIdle
    /\ CbIdle
    /\ TabIdle
    /\ LxIdle
    /\ StmIdle

(***************************************************************************)
(* Class hierarchies: programs of up to MaxClasses classes with fields of  *)
(* type int or long and parameterless methods; no functions.               *)
(***************************************************************************)
HierFieldTypes == {TypeName("int", FALSE), TypeName("long", FALSE)}

\* A step of one component leaves the others as they are.
OnlySem == UNCHANGED <<pvVars, genVars, drvVars, extVars>>
OnlyPV == UNCHANGED <<semVars, genVars, drvVars, extVars>>
OnlyGen == UNCHANGED <<pvVars, semVars, drvVars, extVars>>
OnlyDrv == UNCHANGED <<pvVars, semVars, genVars, extVars>>
OnlyEm == UNCHANGED <<pvVars, semVars, genVars, drvVars, rtVars, poolVars, cbVars, tabVars, lxVars, stmVars>>
OnlyRt == UNCHANGED <<pvVars, semVars, genVars, drvVars, emVars, poolVars, cbVars, tabVars, lxVars, stmVars>>
OnlyPool == UNCHANGED <<pvVars, semVars, genVars, drvVars, emVars, rtVars, cbVars, tabVars, lxVars, stmVars>>
OnlyCb == UNCHANGED <<pvVars, semVars, genVars, drvVars, emVars, rtVars, poolVars, tabVars, lxVars, stmVars>>
OnlyTab == UNCHANGED <<pvVars, semVars, genVars, drvVars, emVars, rtVars, poolVars, cbVars, lxVars, stmVars>>
OnlyLx == UNCHANGED <<pvVars, semVars, genVars, drvVars, emVars, rtVars, poolVars, cbVars, tabVars, stmVars>>
OnlyStm == UNCHANGED <<semVars, genVars, drvVars, emVars, rtVars, poolVars, cbVars, tabVars, lxVars>>

HierNext ==
    \/ SemRegisterClass /\ OnlySem
    \/ SemResolveClassHierarchy /\ OnlySem
    \/ SemClassEnter /\ OnlySem
    \/ \E n \in FieldNames, tn \in HierFieldTypes : SemAnalyzeField(n, tn) /\ OnlySem
    \/ \E n \in MethodNames, static \in BOOLEAN : SemAnalyzeMethod(n, static) /\ OnlySem
    \/ SemClassExit /\ OnlySem
    \/ SemFinish /\ OnlySem

HierInit ==
    /\ SemInit({hs \in HeaderLists(MaxClasses) : Acyclic(hs)},
               [members |-> MaxMembers, funcs |-> 0, stmts |-> 0])
    /\ PVIdle
    /\ GenIdle
    /\ DrvIdle
    /\ ExtIdle

SpecHier == HierInit /\ [][HierNext]_vars

(***************************************************************************)
(* The pointer validator on one function body of up to MaxStmts statements *)
(* nested up to MaxDepth deep.                                             *)
(***************************************************************************)
ValidatorInit ==
    /\ PVInit
    /\ SemIdle
    /\ GenIdle
    /\ DrvIdle
    /\ ExtIdle
ValidatorNext ==
    \/ \E n \in PtrNames : PVVarDeclAlloc(n) /\ OnlyPV
    \/ \E n \in PtrNames, m \in {"release", "clean"} : PVMethodCall(n, m) /\ OnlyPV
    \/ PVReturn /\ OnlyPV
    \/ PVIfEnter /\ OnlyPV
    \/ PVElse /\ OnlyPV
    \/ PVIfEndNoElse /\ OnlyPV
    \/ PVIfEndElse /\ OnlyPV
    \/ PVWhileEnter /\ OnlyPV
    \/ PVWhileEnd /\ OnlyPV
    \/ PVFunctionEnd /\ OnlyPV
SpecPV == ValidatorInit /\ [][ValidatorNext]_vars

(***************************************************************************)
(* Function bodies: a program of class A, or of A and B extends A, with up *)
(* to one method per program, then up to MaxFuncs functions holding up to  *)
(* MaxBodyStmts statements in all.                                         *)
(***************************************************************************)
BodyHeaders ==
    {<<[name |-> "A", extends |-> NoName]>>,
     <<[name |-> "A", extends |-> NoName], [name |-> "B", extends |-> "A"]>>}
BodyVarTypes == {TypeName("int", FALSE)} \cup {TypeName(c, TRUE) : c \in ClassNames}

BodyNext ==
    \/ SemRegisterClass /\ OnlySem
    \/ SemResolveClassHierarchy /\ OnlySem
    \/ SemClassEnter /\ OnlySem
    \/ \E n \in MethodNames : SemAnalyzeMethod(n, FALSE) /\ OnlySem
    \/ SemClassExit /\ OnlySem
    \/ \E fn \in FuncNames, ps \in ParamLists : SemFunctionEnter(fn, ps) /\ OnlySem
    \/ \E n \in VarNames, tn \in BodyVarTypes, init \in ClassNames \cup {NoName} :
          SemVarDecl(n, tn, init) /\ OnlySem
    \/ \E n \in StrVars, placeholder \in VarNames : SemDstringDecl(n, placeholder) /\ OnlySem
    \/ \E obj \in VarNames, m \in {"clean", "release", "f"} : SemCall(obj, m) /\ OnlySem
    \/ \E fn \in FuncNames, nargs \in 0..1 : SemCallFunction(fn, nargs) /\ OnlySem
    \/ SemBlockEnter /\ OnlySem
    \/ SemBlockExit /\ OnlySem
    \/ SemFunctionExit /\ OnlySem
    \/ SemFinish /\ OnlySem

BodyInit ==
    /\ SemInit(BodyHeaders, [members |-> 1, funcs |-> MaxFuncs, stmts |-> MaxBodyStmts])
    /\ PVIdle
    /\ GenIdle
    /\ DrvIdle
    /\ ExtIdle

SpecBody == BodyInit /\ [][BodyNext]_vars

(***************************************************************************)
(* Field layout: one class, or a class and a subclass, with up to          *)
(* MaxFields fields of primitive, void and pointer types.                  *)
(***************************************************************************)
LayoutFieldTypes ==
    {TypeName(n, FALSE) : n \in {"boolean", "short", "int", "long", "void"}}
        \cup {TypeName("A", TRUE)}

LayoutNext ==
    \/ SemRegisterClass /\ OnlySem
    \/ SemResolveClassHierarchy /\ OnlySem
    \/ SemClassEnter /\ OnlySem
    \/ \E n \in FieldNames, tn \in LayoutFieldTypes : SemAnalyzeField(n, tn) /\ OnlySem
    \/ SemClassExit /\ OnlySem
    \/ SemFinish /\ OnlySem

LayoutInit ==
    /\ SemInit(BodyHeaders, [members |-> MaxFields, funcs |-> 0, stmts |-> 0])
    /\ PVIdle
    /\ GenIdle
    /\ DrvIdle
    /\ ExtIdle

SpecLayout == LayoutInit /\ [][LayoutNext]_vars

(***************************************************************************)
(* Analysis and code generation of one program: class A, or A and B        *)
(* extends A, with up to MaxGenMembers members, and a function main whose  *)
(* body holds up to MaxGenStmts statements `var h: C* = D.new();` and      *)
(* `h.m();`.                                                               *)
(***************************************************************************)
MaxGenMembers == 2
MaxGenStmts == 3
GenVarTypes == {TypeName(c, TRUE) : c \in ClassNames}
GenMembers == {"clean", "release", "f"}

PipelineNext ==
    \/ SemRegisterClass /\ OnlySem
    \/ SemResolveClassHierarchy /\ OnlySem
    \/ SemClassEnter /\ OnlySem
    \/ \E n \in MethodNames : SemAnalyzeMethod(n, FALSE) /\ OnlySem
    \/ SemAnalyzeField("clean", TypeName("int", FALSE)) /\ OnlySem
    \/ SemClassExit /\ OnlySem
    \/ SemFunctionEnter("main", <<>>) /\ OnlySem
    \/ \E n \in VarNames, tn \in GenVarTypes, init \in ClassNames :
          /\ SemVarDecl(n, tn, init)
          /\ BodyStatement(VariableDeclaration(n, tn, init))
          /\ UNCHANGED <<pvVars, drvVars, extVars>>
    \/ \E obj \in VarNames, m \in GenMembers :
          /\ SemCall(obj, m)
          /\ BodyStatement(ExpressionStatement(obj, m))
          /\ UNCHANGED <<pvVars, drvVars, extVars>>
    \/ SemFunctionExit /\ OnlySem
    \/ SemFinish /\ OnlySem
    \/ GenFunctionEnter /\ OnlyGen
    \/ GenVarDeclaration /\ OnlyGen
    \/ GenExpressionStatement /\ OnlyGen
    \/ GenFunctionExit /\ OnlyGen

PipelineInit ==
    /\ SemInit(BodyHeaders, [members |-> MaxGenMembers, funcs |-> 1, stmts |-> MaxGenStmts])
    /\ PVIdle
    /\ GenInit
    /\ DrvIdle
    /\ ExtIdle

SpecGen == PipelineInit /\ [][PipelineNext]_vars

(***************************************************************************)
(* The driver on any flags, with every outcome of every step.              *)
(***************************************************************************)
DriverNext ==
    \/ \E exists \in BOOLEAN : DrvStart(exists) /\ OnlyDrv
    \/ \E r \in {"ok", "SyntaxError", "Exception"} : DrvLex(r) /\ OnlyDrv
    \/ \E r \in {"ok", "SyntaxError", "Exception"} : DrvParse(r) /\ OnlyDrv
    \/ \E r \in {"ok", "SemanticError", "Exception"}, w \in BOOLEAN :
          DrvSemantic(r, w) /\ OnlyDrv
    \/ \E e \in BOOLEAN, w \in BOOLEAN : DrvPointer(e, w) /\ OnlyDrv
    \/ \E r \in {"ok", "Exception"} : DrvCodegen(r) /\ OnlyDrv
    \/ \E r \in {"ok", "Exception"} : DrvWrite(r) /\ OnlyDrv
    \/ \E r \in {"ok", "nonzero", "Exception"} : DrvLlc(r) /\ OnlyDrv
    \/ \E r \in {"ok", "nonzero", "Exception"} : DrvLink(r) /\ OnlyDrv

DriverInit ==
    /\ DrvInit
    /\ PVIdle
    /\ SemIdle
    /\ GenIdle
    /\ ExtIdle

SpecDriver == DriverInit /\ [][DriverNext]_vars

(***************************************************************************)
(* Statement emission: up to MaxEmFuncs functions of up to MaxEmStmts      *)
(* statements in all, over int variables v and w and a D-string variable s.*)
(***************************************************************************)
EmitNext ==
    \/ EmFunctionEnter /\ OnlyEm
    \/ \E n \in IntVars : EmVarDeclaration(n) /\ OnlyEm
    \/ \E n \in StrVars, vs \in Placeholders : EmDstringDeclaration(n, vs) /\ OnlyEm
    \/ \E n \in IntVars \cup StrVars : EmAssignment(n) /\ OnlyEm
    \/ \E n \in IntVars, op \in {"++", "--"} : EmUnary(n, op) /\ OnlyEm
    \/ \E n \in IntVars \cup StrVars : EmPrint(n) /\ OnlyEm
    \/ EmReturn /\ OnlyEm
    \/ \E has_else \in BOOLEAN : EmIfEnter(has_else) /\ OnlyEm
    \/ EmElse /\ OnlyEm
    \/ EmIfEnd /\ OnlyEm
    \/ EmWhileEnter /\ OnlyEm
    \/ EmWhileEnd /\ OnlyEm
    \/ EmFunctionExit /\ OnlyEm

EmitInit ==
    /\ EmInit
    /\ PVIdle
    /\ SemIdle
    /\ GenIdle
    /\ DrvIdle
    /\ RtIdle
    /\ PoolIdle
    /\ CbIdle
    /\ TabIdle
    /\ LxIdle
    /\ StmIdle

SpecEmit == EmitInit /\ [][EmitNext]_vars

(***************************************************************************)
(* The D-string runtime: any sequence of calls on one instance, over a     *)
(* heap of MaxAddr blocks.                                                 *)
(***************************************************************************)
RuntimeNext ==
    \/ RtCreate /\ OnlyRt
    \/ RtMarkDirty /\ OnlyRt
    \/ \E value \in XValues : RtStore(value) /\ OnlyRt
    \/ RtGet /\ OnlyRt

RuntimeInit ==
    /\ RtInit
    /\ PVIdle
    /\ SemIdle
    /\ GenIdle
    /\ DrvIdle
    /\ EmIdle
    /\ PoolIdle
    /\ CbIdle
    /\ TabIdle
    /\ LxIdle
    /\ StmIdle

SpecRuntime == RuntimeInit /\ [][RuntimeNext]_vars

(***************************************************************************)
(* String pools: programs of up to MaxPoolStmts statements, scanned up to  *)
(* MaxPoolRuns times, and up to MaxPoolAdds calls of add_string_constant.  *)
(***************************************************************************)
LitLists == {<<>>, <<<<"a">>>>, <<<<"b", "c">>>>, <<<<"a">>, <<"b", "c">>>>}
InnerStatements ==
    {Node(k, <<v>>, <<>>) : k \in {"VariableDeclaration", "PrintStatement"}, v \in Literals}
PoolStatements ==
    {Node(k, ls, <<>>) :
        k \in {"VariableDeclaration", "ReturnStatement", "ExpressionStatement",
               "PrintStatement", "AssignmentStatement"},
        ls \in LitLists}
    \cup {Node(k, ls, b) :
            k \in {"IfStatement", "WhileStatement", "ForStatement"},
            ls \in {<<>>, <<<<"a">>>>},
            b \in {<<>>} \cup {<<n>> : n \in InnerStatements}}

PoolNext ==
    \/ \E node \in PoolStatements : PoolStatement(node) /\ OnlyPool
    \/ PoolCollectStrings /\ OnlyPool
    \/ \E value \in Literals : SymAddStringConstant(value) /\ OnlyPool

PoolsInit ==
    /\ PoolInit
    /\ PVIdle
    /\ SemIdle
    /\ GenIdle
    /\ DrvIdle
    /\ EmIdle
    /\ RtIdle
    /\ CbIdle
    /\ TabIdle
    /\ LxIdle
    /\ StmIdle

SpecPool == PoolsInit /\ [][PoolNext]_vars

(***************************************************************************)
(* Class bodies of up to MaxClassItems labels and members: fields x and y, *)
(* annotated serializable or not, and a method m.                          *)
(***************************************************************************)
ClassBodyNext ==
    \/ \E v \in Visibilities : CbLabel(v) /\ OnlyCb
    \/ \E n \in {"x", "y"}, serializable \in BOOLEAN :
          CbMember("FieldDeclaration", n, serializable) /\ OnlyCb
    \/ CbMember("MethodDeclaration", "m", FALSE) /\ OnlyCb
    \/ CbClassEnd /\ OnlyCb
    \/ CbAnalyzeMember /\ OnlyCb
    \/ CbAnalyzeEnd /\ OnlyCb

ClassBodyInit ==
    /\ CbInit
    /\ PVIdle
    /\ SemIdle
    /\ GenIdle
    /\ DrvIdle
    /\ EmIdle
    /\ RtIdle
    /\ PoolIdle
    /\ TabIdle
    /\ LxIdle
    /\ StmIdle

SpecClassBody == ClassBodyInit /\ [][ClassBodyNext]_vars

(***************************************************************************)
(* Symbol tables after up to MaxTabCalls calls of enter_scope, exit_scope, *)
(* define and resolve, on names h and s of type int or long.               *)
(***************************************************************************)
SymbolTableNext ==
    \/ TabEnterScope("block") /\ OnlyTab
    \/ TabExitScope /\ OnlyTab
    \/ \E n \in TabNames, t \in TabTypes : TabDefine(n, t) /\ OnlyTab
    \/ \E n \in TabNames : TabResolve(n) /\ OnlyTab

SymbolTableInit ==
    /\ TabInit
    /\ PVIdle
    /\ SemIdle
    /\ GenIdle
    /\ DrvIdle
    /\ EmIdle
    /\ RtIdle
    /\ PoolIdle
    /\ CbIdle
    /\ LxIdle
    /\ StmIdle

SpecSymbolTable == SymbolTableInit /\ [][SymbolTableNext]_vars

(***************************************************************************)
(* Sources of up to MaxSource characters: the operator characters, the     *)
(* blank, and # which starts no token; and sources of up to MaxText        *)
(* characters of strings, of numbers and names, of annotations, or of      *)
(* comments.                                                               *)
(***************************************************************************)
Sources ==
    UNION {[1..n -> Chars] : n \in 0..MaxSource}
        \cup UNION {[1..n -> cs] : n \in 0..MaxText, cs \in TextFamilies}

LexerNext ==
    \/ lx.phase = "idle" /\ (\E source \in Sources : LexNew(source)) /\ OnlyLx
    \/ LexScan /\ OnlyLx
    \/ LexEof /\ OnlyLx

LexerInit ==
    /\ LxInit
    /\ PVIdle
    /\ SemIdle
    /\ GenIdle
    /\ DrvIdle
    /\ EmIdle
    /\ RtIdle
    /\ PoolIdle
    /\ CbIdle
    /\ TabIdle
    /\ StmIdle

SpecLexer == LexerInit /\ [][LexerNext]_vars

\* tokenize runs its loop, and the statement after it, without being held up.
SpecLexerLive == SpecLexer /\ WF_lxVars(LexScan) /\ WF_lxVars(LexEof)

(***************************************************************************)
(* Function bodies of up to MaxPvStmts statements: declarations and        *)
(* assignments that allocate, release and clean calls, returns, if, while  *)
(* and for statements, nested up to MaxDepth deep.                         *)
(***************************************************************************)
More == pvLast.count < MaxPvStmts

StatementsNext ==
    \/ \E n \in PtrNames :
          More /\ PVVarDeclAlloc(n) /\ Track("vardecl", n) /\ OnlyStm
    \/ \E n \in PtrNames :
          More /\ PVAssignAlloc(n) /\ Track("assign", n) /\ OnlyStm
    \/ \E n \in PtrNames, m \in {"release", "clean"} :
          More /\ PVMethodCall(n, m) /\ Track(m, n) /\ OnlyStm
    \/ \E n \in PtrNames, returns \in BOOLEAN :
          More /\ PVForStatement(n, returns)
               /\ Track(IF returns THEN "for_return" ELSE "for", n) /\ OnlyStm
    \/ More /\ PVReturn /\ Track("return", NoName) /\ OnlyStm
    \/ More /\ PVIfEnter /\ Track("if", NoName) /\ OnlyStm
    \/ PVElse /\ Track("else", NoName) /\ OnlyStm
    \/ PVIfEndNoElse /\ Track("endif", NoName) /\ OnlyStm
    \/ PVIfEndElse /\ Track("endif", NoName) /\ OnlyStm
    \/ More /\ PVWhileEnter /\ Track("while", NoName) /\ OnlyStm
    \/ PVWhileEnd /\ Track("endwhile", NoName) /\ OnlyStm
    \/ PVFunctionEnd /\ Track("exit", NoName) /\ OnlyStm

StatementsInit ==
    /\ PVInit
    /\ StmInit
    /\ SemIdle
    /\ GenIdle
    /\ DrvIdle
    /\ EmIdle
    /\ RtIdle
    /\ PoolIdle
    /\ CbIdle
    /\ TabIdle
    /\ LxIdle

SpecStatements == StatementsInit /\ [][StatementsNext]_vars

(***************************************************************************)
(*                              PROPERTIES                                 *)
(***************************************************************************)
IsPrefix(s, t) == Len(s) <= Len(t) /\ \A i \in 1..Len(s) : t[i] = s[i]

\* C1 (SpecPV): when the validator has recorded no error for a function, no
\* control-flow path of its body reaches a return statement with a binding
\* that was allocated on that path and neither released nor cleaned since.
C1_NoErrorMeansNoLeakAtReturn ==
    (pvPc = "done" /\ pvErrors = <<>>) => ~leakReturn

\* C2 (SpecBody): for a local h of type pointer-to-C initialised with
\* C.new(), the statement `h.clean();` or `h.release();` records no semantic
\* error, whatever members class C declares.
C2_CleanCallRecordsNoError ==
    (/\ raised = "none"
     /\ semLast.kind = "call"
     /\ semLast.arg \in {"clean", "release"}
     /\ \E c \in ClassNames :
           /\ reg[c].registered
           /\ Resolve(scopes, semLast.name) = Symbol(PointerT(c), c))
    => semLast.nerrs = 0

\* C3 (SpecGen): for every generated statement `x.clean();` where x has type
\* pointer-to-class C, a call of C_clean_impl on the value of x is emitted,
\* whether or not C declares a method named clean.
C3_CleanLowersToDestructor ==
    \A i \in 1..Len(ast) :
        (/\ genPc.phase \in {"body", "done"}
         /\ i < genPc.i
         /\ ast[i].kind = "call"
         /\ ast[i].member = "clean"
         /\ locals[ast[i].name].kind = "pointer"
         /\ RegistryGet(reg, locals[ast[i].name].name).kind = "class")
        => \E k \in 1..Len(emitted) :
              emitted[k] = Call(i, locals[ast[i].name].name, "clean_impl", ast[i].name)

Ran(s) == outcome[s] # "notrun"
Succeeded(s) == outcome[s] = "ok"
Failed(s) == Ran(s) /\ ~Succeeded(s)

\* C4 (SpecDriver): a stage has started only if every earlier stage
\* succeeded; once a stage has failed (the pointer validator by reporting
\* errors) the process has exited with status 1, no later stage has run and
\* no IR is written; a run that printed warnings and in which no stage
\* failed has run the code generator by the time it exits; and the exit
\* status is 0 only if every step that ran succeeded.
C4_StagesInOrder ==
    /\ \A i \in 1..Len(StageOrder) :
          Ran(StageOrder[i]) => \A j \in 1..(i - 1) : Succeeded(StageOrder[j])
    /\ \A i \in 1..Len(StageOrder) :
          Failed(StageOrder[i]) =>
              /\ drvPc = "exit"
              /\ exitStatus = 1
              /\ ~irWritten
              /\ \A j \in (i + 1)..Len(StageOrder) : ~Ran(StageOrder[j])
    /\ (drvPc = "exit" /\ warned # {} /\ \A s \in Stages : ~Failed(s))
          => Ran("codegen")
    /\ exitStatus = 0 => \A s \in Steps : ~Failed(s)

\* C4, the case reached: semantic warnings were printed, the pointer
\* validator reported errors, and the process exited with status 1 before
\* code generation.
C4_PointerErrorsExit ==
    /\ drvPc = "exit"
    /\ exitStatus = 1
    /\ "semantic" \in warned
    /\ outcome["pointer"] = "errors"
    /\ ~Ran("codegen")
    /\ ~irWritten

\* C5 (SpecHier): after a successful analysis, the vtable of every class
\* that extends P starts with the method names of the vtable of P, at the
\* same indices.
C5_VtablePrefix ==
    semPc.pass = "done" =>
        \A c \in ClassNames :
            reg[c].parent # NoName =>
                LET vp == reg[reg[c].parent].vtable
                    vc == reg[c].vtable
                IN /\ Len(vc) >= Len(vp)
                   /\ \A i \in 1..Len(vp) : vc[i].name = vp[i].name

\* C6 (SpecHier): after a successful analysis, a non-static method of a
\* subclass that has the name of an entry of its parent's vtable has that
\* entry's index, and the subclass vtable holds one entry of that name.
C6_OverrideKeepsSlot ==
    semPc.pass = "done" =>
        \A c \in ClassNames :
            reg[c].parent # NoName =>
                \A k \in 1..Len(reg[c].methods) :
                    LET m == reg[c].methods[k]
                        vp == reg[reg[c].parent].vtable
                        vc == reg[c].vtable
                    IN (~m.is_static /\ \E j \in 1..Len(vp) : vp[j].name = m.name) =>
                          /\ \E j \in 1..Len(vp) :
                                vp[j].name = m.name /\ vp[j].vtable_index = m.vtable_index
                          /\ Cardinality({i \in 1..Len(vc) : vc[i].name = m.name}) = 1

\* C7 (SpecHier): after a successful analysis, the field map of a class that
\* extends P starts with the fields of P in P's order, its struct starts
\* with the element types of the struct of P, and its struct size is at
\* least that of P.
C7_InheritedFieldsFirst ==
    semPc.pass = "done" =>
        \A c \in ClassNames :
            reg[c].parent # NoName =>
                LET p == reg[c].parent
                    fp == reg[p].fields
                    fc == reg[c].fields
                IN /\ Len(fc) >= Len(fp)
                   /\ \A i \in 1..Len(fp) : fc[i].name = fp[i].name
                   /\ IsPrefix(GenerateClassStruct(reg, p), GenerateClassStruct(reg, c))
                   /\ reg[c].struct_size >= reg[p].struct_size

\* C8 (SpecLayout): after any sequence of add_field calls that returned,
\* every field of a class lies at an offset of at least 8 that is a multiple
\* of the size of its type, no field starts before the end of the field
\* before it in the map, and struct_size covers the last field.
C8_FieldLayout ==
    raised = "none" =>
        \A c \in ClassNames :
            LET fs == reg[c].fields IN
            \A i \in 1..Len(fs) :
                LET o == fs[i].offset
                    s == SizeBytes(reg, fs[i].type)
                IN /\ o >= VtableSlotSize
                   /\ o % s = 0
                   /\ i > 1 => o >= fs[i - 1].offset + SizeBytes(reg, fs[i - 1].type)
                   /\ i = Len(fs) => reg[c].struct_size >= o + s

\* C9 (SpecBody): `var h: A* = B.new();` with A and B registered classes
\* is accepted by the compatibility check exactly when A is B or is reached
\* from B along the parent chain.
C9_SubclassPointerCompatible ==
    (/\ raised = "none"
     /\ semLast.kind = "vardecl"
     /\ semLast.tname.ptr
     /\ semLast.tname.base \in ClassNames
     /\ semLast.arg \in ClassNames
     /\ reg[semLast.tname.base].registered
     /\ reg[semLast.arg].registered)
    => (semLast.nerrs = 0
          <=> \/ semLast.tname.base = semLast.arg
              \/ InParentChain(reg, semLast.arg, semLast.tname.base))

\* C10 (SpecBody): analyze() ends in no failure other than SemanticError,
\* ends in SemanticError only with a non-empty error list, and returns only
\* with an empty one.
C10_OnlySemanticErrorRaised ==
    /\ raised \in {"none", "SemanticError"}
    /\ raised = "SemanticError" => semErrors # <<>>
    /\ semPc.pass = "done" => semErrors = <<>>

\* The function an instruction belongs to starts at the last define before it.
FunctionStart(i) ==
    CHOOSE k \in 1..i : /\ output[k].op = "define"
                        /\ \A m \in (k + 1)..i : output[m].op # "define"

\* D-string d of the function of instruction i was given variable v before i.
DependsOn(d, v, i) ==
    \E k \in FunctionStart(i)..i : output[k] = Instr("setVar", v, d)

\* C11: every store the generator emits to a local variable is followed, before
\* any other instruction, by a DString_markDirty call for each D-string of the
\* function that was created earlier and references the variable; v++ and v--
\* count as stores.
C11_StoreMarksDependentsDirty ==
    \A i \in 1..Len(output) :
        output[i].op = "store" =>
            \A d \in 0..MaxDstrings :
                DependsOn(d, output[i].var, i) =>
                    \E j \in (i + 1)..Len(output) :
                        /\ output[j] = Instr("markDirty", output[i].var, d)
                        /\ \A m \in (i + 1)..(j - 1) : output[m].op = "markDirty"

\* C15: when some path through the body of a function reaches the end of the
\* body without executing a return statement, the instruction before the
\* closing brace is the default ret the generator appends.
C15_FallThroughGetsDefaultRet ==
    emPc.phase = "done" /\ emPc.reach =>
        output[Len(output) - 1] = Instr("ret", "default", NoD)

\* C12: DString_create leaves the dirty flag set; DString_get called with the
\* flag set frees the old cache if there is one, allocates, stores the new
\* buffer, clears the flag and returns the buffer; called with the flag clear
\* it returns the stored cache and allocates, frees and changes nothing; after
\* every DString_get the flag is clear.
C12_GetRebuildsIffDirty ==
    /\ rtLast.op = "create" => rt.dstr.dirty
    /\ rtLast.op = "get" =>
        /\ ~rt.dstr.dirty
        /\ rtLast.ret = rt.dstr.cache
        /\ IF rtLast.pre.dirty
           THEN /\ rtLast.mallocs > 0
                /\ rt.heap[rtLast.ret] = Itoa(rt.x)
                /\ rtLast.pre.cache # NullPtr => rtLast.pre.cache \in rtLast.freed
           ELSE /\ rtLast.mallocs = 0
                /\ rtLast.freed = {}
                /\ rt.dstr = rtLast.pre

\* C12 (witness): a DString_get found the flag set and an old cache to free.
C12_RebuildFreesOldCache ==
    /\ rtLast.op = "get"
    /\ rtLast.pre.dirty
    /\ rtLast.pre.cache # NullPtr

\* C13: a DString_get that follows an earlier DString_get, a store to the
\* referenced variable and the DString_markDirty for it returns an address
\* other than the one the earlier call returned.
C13_SecondGetReturnsOtherAddress ==
    (rtLast.op = "get" /\ rtLast.since = "marked" /\ rtLast.pre.cache # NullPtr)
        => rtLast.ret # rtLast.pre.cache

\* C14 (SpecBody): a declaration `var s: str = D"...{x}...";` whose
\* placeholder x resolves to no symbol at the literal records a semantic error.
C14_UndefinedPlaceholderIsError ==
    (/\ raised = "none"
     /\ semLast.kind = "dstring"
     /\ Resolve(scopes, semLast.arg) = NoSymbol)
    => semLast.nerrs > 0

\* The regular-string literals that occur in a list of statements.
RECURSIVE LiteralsIn(_)
LiteralsIn(stmts) ==
    IF stmts = <<>> THEN {}
    ELSE SeqToSet(Head(stmts).lits) \cup LiteralsIn(Head(stmts).body)
         \cup LiteralsIn(Tail(stmts))

\* C16: after the scan every regular-string literal of the program is in the
\* pool, so that generating it yields the name of an emitted @.str.<N>
\* constant.
C16_EveryLiteralPooled ==
    pool.phase = "collected" =>
        \A v \in LiteralsIn(prog) :
            GenerateLiteral(pool.string_constants, v) \in SeqToSet(pool.emitted)

\* The entries of a pool have pairwise different values and different names.
OneToOne(constants) ==
    \A i, j \in 1..Len(constants) :
        i # j => constants[i].name # constants[j].name
                 /\ constants[i].llvm # constants[j].llvm

C18_MemberUnderItsLabel ==
    cb.phase = "done" =>
        /\ Len(cb.infos) = Len(cb.members)
        /\ \A j \in 1..Len(cb.members) :
              /\ cb.infos[j].visibility = cb.under[j]
              /\ (cb.members[j].kind = "FieldDeclaration" /\ cb.members[j].serializable)
                    => ((\E e \in 1..Len(cb.errors) : cb.errors[e].name = cb.members[j].name)
                          <=> cb.under[j] # "public")

\* The scopes of the chain sc that hold the name n.
Holders(sc, n) == {i \in DOMAIN sc : sc[i].symbols[n] # NoSymbol}

\* C19: define of a name the current scope already holds raises NameError
\* and leaves every scope as it was; define of any other name, one held by
\* an enclosing scope included, succeeds, and resolve then returns the
\* symbol of the innermost scope of the current chain that holds the name.
C19_DefineOncePerScope ==
    LET was == tabLast.before.scopes
        held == Len(was) \in Holders(was, tabLast.name)
        now == Holders(tab.scopes, tabLast.name)
        innermost == CHOOSE i \in now : \A j \in now : j <= i
    IN /\ tabLast.op = "define" /\ held
            => /\ tabLast.raised = "NameError"
               /\ tab = tabLast.before
       /\ tabLast.op = "define" /\ ~held
            => /\ tabLast.raised = "none"
               /\ tab.scopes[Len(tab.scopes)].symbols[tabLast.name]
                      = tabLast.symbol
               /\ Resolve(tab.scopes, tabLast.name) = tabLast.symbol
               /\ \A i \in 1..Len(was) - 1 : tab.scopes[i] = was[i]
               /\ tab.exited = tabLast.before.exited
       /\ tabLast.op = "resolve"
            => tabLast.symbol = IF now = {} THEN NoSymbol
                                ELSE tab.scopes[innermost].symbols[tabLast.name]

\* C19 (witness): a name held by the enclosing scope with one type is
\* defined in the inner scope with another, and resolve returns the inner
\* symbol.
C19_ShadowingDefineResolved ==
    /\ tabLast.op = "resolve"
    /\ tabLast.shadows
    /\ Len(tab.scopes) > 1
    /\ tabLast.symbol = tab.scopes[Len(tab.scopes)].symbols[tabLast.name]
    /\ tabLast.symbol # tab.scopes[Len(tab.scopes) - 1].symbols[tabLast.name]
    /\ tab.scopes[Len(tab.scopes) - 1].symbols[tabLast.name] # NoSymbol

\* The operators of the language, as character sequences.
Operators ==
    {<<"+", "+">>, <<"-", "-">>, <<"+", "=">>, <<"-", "=">>, <<"/", "=">>,
     <<"%", "=">>, <<"=", "=">>, <<"!", "=">>, <<"<", "=">>, <<">", "=">>,
     <<"&", "&">>, <<"|", "|">>, <<"-", ">">>,
     <<"+">>, <<"-">>, <<"*">>, <<"/">>, <<"%">>, <<"=">>, <<"!">>, <<"<">>,
     <<">">>, <<"&">>, <<"|">>, <<"^">>}

\* C20: tokenize of a source that is exactly one operator ends with one
\* token whose lexeme is that operator, followed by EOF; a two-character
\* operator is one token, not two.
C20_OperatorIsOneToken ==
    lx.phase \in {"done", "raised"} /\ lx.source \in Operators
        => /\ lx.raised = "none"
           /\ Len(lx.tokens) = 2
           /\ lx.tokens[1].value = Lexeme(lx.source)
           /\ lx.tokens[2].type = "EOF"

\* A source that opens a string literal and never closes it: every later
\* occurrence of the opening quote stands after a single backslash.
Unterminated(source) ==
    /\ source # <<>>
    /\ source[1] \in Quotes
    /\ \A i \in 2..Len(source) :
          source[i] = source[1]
              => i > 2 /\ source[i - 1] = "\\" /\ source[i - 2] # "\\"

\* C21: tokenize terminates: each turn of its loop moves pos forward or
\* raises, and every call returns or raises; the tokens it returns end with
\* an EOF token and hold no other EOF token; on an unterminated string
\* literal it raises instead of returning.
C21_TokenizeTerminates ==
    /\ [][lx.phase = "scanning" /\ lx'.phase = "scanning"
              => lx'.pos > lx.pos]_lx
    /\ [](lx.phase = "done"
              => /\ lx.tokens # <<>>
                 /\ \A i \in DOMAIN lx.tokens :
                       lx.tokens[i].type = "EOF" <=> i = Len(lx.tokens))
    /\ [](Unterminated(lx.source) /\ lx.phase \in {"done", "raised"}
              => lx.raised = "SyntaxError")
    /\ (lx.phase = "scanning") ~> (lx.phase \in {"done", "raised"})

\* C21 (witness): tokenize returned the tokens of a source with a comment
\* and a token in it.
C21_ReturnedAfterComment ==
    /\ lx.phase = "done"
    /\ Len(lx.tokens) = 2
    /\ Len(lx.source) = MaxText
    /\ lx.source[1] = "/"
    /\ lx.source[2] \in {"/", "*"}

\* The names of a sequence of error or warning records.
Named(records) == {records[i].name : i \in DOMAIN records}

\* C22: after `x = <allocation>;` the binding x is in state allocated, and
\* when it was allocated before, the statement added a warning that names x.
C22_AssignmentAllocates ==
    pvLast.op = "assign"
        => /\ GetState(frames, pvLast.name) = ALLOCATED
           /\ GetState(pvLast.before, pvLast.name) = ALLOCATED
                 => pvLast.name \in Named(pvLast.warnings)

\* C23 (as claimed): no statement validated inside an if or else branch adds
\* a pointer-cleanup error.
C23_BranchNeverReported ==
    pvLast.kind \in {"then", "else"} => pvLast.errors = <<>>

\* C23 (amended): an error names a binding that the tracker of the block the
\* statement stands in has allocated and still holds allocated; inside an if
\* or else branch only a return statement adds one, and leaving the branch
\* adds none.
C23_BranchReportedOnlyAtItsReturn ==
    /\ \A i \in DOMAIN pvLast.errors :
          LET tr == pvLast.before[Len(pvLast.before)].tr
              n == pvLast.errors[i].name
          IN /\ \E j \in DOMAIN tr.allocations : tr.allocations[j] = n
             /\ tr.pointers[n] = ALLOCATED
    /\ pvLast.kind \in {"then", "else"} /\ pvLast.errors # <<>>
          => pvLast.op = "return"

\* C23 (witness): a return inside a branch reported the branch's allocation.
C23_ReturnInBranchReported ==
    /\ pvLast.op = "return"
    /\ pvLast.kind \in {"then", "else"}
    /\ pvLast.errors # <<>>

\* C24: at the end of an if/else statement, every binding that left one
\* branch allocated and the other released or cleaned is named by a warning
\* the statement added.
C24_AsymmetricCleanupWarned ==
    pvLast.op = "endif" /\ pvLast.kind = "else"
        => \A n \in PtrNames :
              \/ /\ pvLast.thenEnd[n] = ALLOCATED
                 /\ pvLast.elseEnd[n] \in {RELEASED, CLEANED}
              \/ /\ pvLast.elseEnd[n] = ALLOCATED
                 /\ pvLast.thenEnd[n] \in {RELEASED, CLEANED}
              => n \in Named(pvLast.warnings)

\* C25: at the end of a while statement, every name that a statement inside
\* the body bound to an allocation is named by a warning the statement added.
C25_LoopAllocationWarned ==
    pvLast.op = "endwhile"
        => \A n \in pvLast.allocs : n \in Named(pvLast.warnings)

\* C26: n.release() or n.clean() validated in a nested tracker sets the
\* state of n in the nearest tracker of the parent chain that holds n, and
\* changes nothing else: no other binding, no other tracker, no list of
\* allocations, and nothing at all when no tracker of the chain holds n.
C26_CallReachesNearestHolder ==
    pvLast.op \in {"release", "clean"} /\ Len(pvLast.before) > 1
        => LET fr == pvLast.before
               n == pvLast.name
               holders == {i \in DOMAIN fr : fr[i].tr.pointers[n] # NoName}
               nearest == CHOOSE i \in holders : \A j \in holders : j <= i
               st == IF pvLast.op = "release" THEN RELEASED ELSE CLEANED
           IN IF holders = {} THEN frames = fr
              ELSE frames = [fr EXCEPT ![nearest].tr.pointers[n] = st]

\* C26 (witness): a clean call two trackers deep changed the binding held
\* by the function's tracker.
C26_CleanReachedFunctionTracker ==
    /\ pvLast.op = "clean"
    /\ Len(pvLast.before) = 3
    /\ pvLast.before[1].tr.pointers[pvLast.name] = ALLOCATED
    /\ frames[1].tr.pointers[pvLast.name] = CLEANED

\* C28: a for statement whose body allocates a binding and leaves it
\* allocated adds a warning or an error that names the binding, and adds an
\* error when the body returns with the binding allocated.
C28_ForBodyValidated ==
    pvLast.op \in {"for", "for_return"}
        => /\ pvLast.name \in Named(pvLast.errors) \cup Named(pvLast.warnings)
           /\ pvLast.op = "for_return" => pvLast.name \in Named(pvLast.errors)


\* C27: within one emitted function no stack slot %<var>.addr is defined by
\* two alloca instructions, whatever scopes of the body declare the variable.
C27_SlotDefinedOncePerFunction ==
    \A i, j \in 1..Len(output) :
        /\ i < j
        /\ output[i].op = "alloca"
        /\ output[j].op = "alloca"
        /\ output[i].var = output[j].var
        => FunctionStart(i) # FunctionStart(j)


\* C29: a call of a top-level function of the file never records an
\* undefined-identifier error, wherever in the file the function is declared:
\* no function the global scope holds has such an error recorded for its name.
C29_DeclaredFunctionNeverUndefined ==
    \A fn \in FuncNames :
        /\ scopes # <<>>
        /\ scopes[1].symbols[fn] # NoSymbol
        => \A k \in 1..Len(semErrors) :
               semErrors[k] # SemError("UndefinedIdentifier", fn)


\* The store at k writes the value of a D-string literal to its variable.
DstringStore(k) ==
    /\ k > 1
    /\ output[k].op = "store"
    /\ output[k - 1].op = "get"
    /\ output[k - 1].var = NoName

\* C30: after a plain (non-D-string) value is stored to a string variable,
\* no later read of the variable in the function is a DString_get, unless a
\* D-string was stored to the variable in between.
C30_ReadAfterPlainStoreIsLoad ==
    \A i, j \in 1..Len(output) :
        /\ i < j
        /\ output[i].op = "store"
        /\ output[i].var \in StrVars
        /\ ~DstringStore(i)
        /\ output[j].op = "get"
        /\ output[j].var = output[i].var
        /\ FunctionStart(i) = FunctionStart(j)
        => \E k \in (i + 1)..(j - 1) :
               DstringStore(k) /\ output[k].var = output[i].var

====
